---- MODULE Spec2Model ----
(***************************************************************************)
(* A model of two cores of the Mesa tree kept in this repository:          *)
(*   - util/format/u_format.c: the format predicates, the compatibility    *)
(*     check, util_copy_rect and util_format_translate(_3d);               *)
(*   - compiler/nir/nir_linking_helpers.c: removal of unused varyings,     *)
(*     compaction of varyings, assignment of driver locations.             *)
(* Memory is modelled at byte granularity, descriptors as records.         *)
(***************************************************************************)
EXTENDS Integers, Sequences, FiniteSets, TLC

VARIABLES
    \* ---- util_is_format_compatible called on its own
    cpc,            \* "call" | "done"
    src_desc,       \* descriptor passed as src_desc
    dst_desc,       \* descriptor passed as dst_desc
    compatible,     \* the boolean returned
    \* ---- the format predicates, the swizzle helpers and util_get_depth_format_mrd
    qpc,            \* "call" | "done"
    query,          \* the function called and its arguments
    answer,         \* what it returned or wrote
    \* ---- util_format_translate / util_format_translate_3d
    pc,             \* position in util_format_translate(_3d)
    call,           \* the arguments of the call (formats, views, rectangle)
    unpack,         \* util_format_unpack_description(src_format): capabilities present
    pack,           \* util_format_pack_description(dst_format): capabilities present
    src,            \* source memory, byte address -> byte
    dst,            \* destination memory, byte address -> byte
    loc,            \* locals of util_format_translate (rows, steps, height left, path)
    heap,           \* scratch buffers: name -> "none" | "live" | "freed"
    trace,          \* what the call did: calls through null, bad heap uses, paths taken
    ret,            \* return value of the last util_format_translate ("none" before)
    layer,          \* util_format_translate_3d: slice counter z, dst_layer, src_layer
    ret3d,          \* return value of util_format_translate_3d ("none" before)
    trip,           \* round-trip harness: n = 1 (A to B) or 2 (B back to A), orig = A's bytes
    \* ---- nir_remove_unused_io_vars
    npc,            \* "call" | "loop" | "done"
    shader,         \* the shader: stage and its variable list
    nargs,          \* mode and the two used masks passed in
    nidx,           \* position of the variable iterator
    progress,       \* the progress flag
    \* ---- the functions taking a producer and a consumer: nir_remove_unused_varyings,
    \*      nir_compact_varyings, nir_assign_linked_io_var_locations
    lpc,            \* position in the running function
    producer,       \* the producer: stage, variables, the outputs its body loads, info masks
    consumer,       \* the consumer: stage, variables, the inputs its body loads, info masks
    lk,             \* locals of the running function
    lin,            \* the two shaders as they were passed in
    \* ---- nir_assign_io_var_locations
    apc,            \* position in the function
    io_shader,      \* the shader: its variables
    io              \* arguments and locals of the function

qryVars == <<qpc, query, answer>>
fmtVars == <<cpc, src_desc, dst_desc, compatible, qryVars>>
trVars  == <<pc, call, unpack, pack, src, dst, loc, heap, trace, ret, layer, ret3d, trip>>
nirVars == <<npc, shader, nargs, nidx, progress>>
lnVars  == <<lpc, producer, consumer, lk, lin>>
aioVars == <<apc, io_shader, io>>
linkVars == <<lnVars, aioVars>>
vars    == <<fmtVars, trVars, nirVars, linkVars>>

(***************************************************************************)
(* Enumerations of p_defines.h and u_format.h                              *)
(***************************************************************************)
PIPE_SWIZZLE_X == 0
PIPE_SWIZZLE_Y == 1
PIPE_SWIZZLE_Z == 2
PIPE_SWIZZLE_W == 3
PIPE_SWIZZLE_0 == 4
PIPE_SWIZZLE_1 == 5
PIPE_SWIZZLE_NONE == 6

UTIL_FORMAT_TYPE_VOID == "void"
UTIL_FORMAT_TYPE_UNSIGNED == "unsigned"
UTIL_FORMAT_TYPE_SIGNED == "signed"
UTIL_FORMAT_TYPE_FLOAT == "float"

UTIL_FORMAT_LAYOUT_PLAIN == "plain"
UTIL_FORMAT_LAYOUT_S3TC == "s3tc"

UTIL_FORMAT_COLORSPACE_RGB == "rgb"
UTIL_FORMAT_COLORSPACE_SRGB == "srgb"
UTIL_FORMAT_COLORSPACE_ZS == "zs"

MAX2(a, b) == IF a > b THEN a ELSE b

(***************************************************************************)
(* struct util_format_description.  Arrays are indexed from 0 as in C.     *)
(***************************************************************************)
Arr4(s) == [i \in 0..3 |-> s[i + 1]]

Chan(type, normalized, pure_integer, size) ==
    [type |-> type, normalized |-> normalized, pure_integer |-> pure_integer, size |-> size]

ChX(n)  == Chan(UTIL_FORMAT_TYPE_VOID, FALSE, FALSE, n)
ChUN(n) == Chan(UTIL_FORMAT_TYPE_UNSIGNED, TRUE, FALSE, n)
ChSN(n) == Chan(UTIL_FORMAT_TYPE_SIGNED, TRUE, FALSE, n)
ChUP(n) == Chan(UTIL_FORMAT_TYPE_UNSIGNED, FALSE, TRUE, n)
ChSP(n) == Chan(UTIL_FORMAT_TYPE_SIGNED, FALSE, TRUE, n)
ChUS(n) == Chan(UTIL_FORMAT_TYPE_UNSIGNED, FALSE, FALSE, n)
ChF(n)  == Chan(UTIL_FORMAT_TYPE_FLOAT, FALSE, FALSE, n)
ChNone  == ChX(0)

Description(format, layout, bw, bh, bits, nr_channels, channel, swizzle, colorspace) ==
    [format |-> format, layout |-> layout,
     block |-> [width |-> bw, height |-> bh, bits |-> bits],
     nr_channels |-> nr_channels, channel |-> Arr4(channel),
     swizzle |-> Arr4(swizzle), colorspace |-> colorspace]

SwzXYZW == <<PIPE_SWIZZLE_X, PIPE_SWIZZLE_Y, PIPE_SWIZZLE_Z, PIPE_SWIZZLE_W>>
SwzXYZ1 == <<PIPE_SWIZZLE_X, PIPE_SWIZZLE_Y, PIPE_SWIZZLE_Z, PIPE_SWIZZLE_1>>
SwzZYXW == <<PIPE_SWIZZLE_Z, PIPE_SWIZZLE_Y, PIPE_SWIZZLE_X, PIPE_SWIZZLE_W>>
SwzZYX1 == <<PIPE_SWIZZLE_Z, PIPE_SWIZZLE_Y, PIPE_SWIZZLE_X, PIPE_SWIZZLE_1>>
SwzX001 == <<PIPE_SWIZZLE_X, PIPE_SWIZZLE_0, PIPE_SWIZZLE_0, PIPE_SWIZZLE_1>>
SwzXXX1 == <<PIPE_SWIZZLE_X, PIPE_SWIZZLE_X, PIPE_SWIZZLE_X, PIPE_SWIZZLE_1>>
SwzXXXX == <<PIPE_SWIZZLE_X, PIPE_SWIZZLE_X, PIPE_SWIZZLE_X, PIPE_SWIZZLE_X>>
Swz000X == <<PIPE_SWIZZLE_0, PIPE_SWIZZLE_0, PIPE_SWIZZLE_0, PIPE_SWIZZLE_X>>
SwzXY__ == <<PIPE_SWIZZLE_X, PIPE_SWIZZLE_Y, PIPE_SWIZZLE_NONE, PIPE_SWIZZLE_NONE>>
SwzX___ == <<PIPE_SWIZZLE_X, PIPE_SWIZZLE_NONE, PIPE_SWIZZLE_NONE, PIPE_SWIZZLE_NONE>>
Swz_X__ == <<PIPE_SWIZZLE_NONE, PIPE_SWIZZLE_X, PIPE_SWIZZLE_NONE, PIPE_SWIZZLE_NONE>>

Rgba8(format, ch, a, swizzle, colorspace) ==
    Description(format, UTIL_FORMAT_LAYOUT_PLAIN, 1, 1, 32, 4, <<ch, ch, ch, a>>,
                swizzle, colorspace)

One8(format, ch, swizzle) ==
    Description(format, UTIL_FORMAT_LAYOUT_PLAIN, 1, 1, 8, 1,
                <<ch, ChNone, ChNone, ChNone>>, swizzle, UTIL_FORMAT_COLORSPACE_RGB)

(* The rows of the format table the model draws its formats from. *)
FormatTable ==
    { Rgba8("R8G8B8A8_UNORM", ChUN(8), ChUN(8), SwzXYZW, UTIL_FORMAT_COLORSPACE_RGB),
      Rgba8("R8G8B8X8_UNORM", ChUN(8), ChX(8), SwzXYZ1, UTIL_FORMAT_COLORSPACE_RGB),
      Rgba8("B8G8R8A8_UNORM", ChUN(8), ChUN(8), SwzZYXW, UTIL_FORMAT_COLORSPACE_RGB),
      Rgba8("B8G8R8X8_UNORM", ChUN(8), ChX(8), SwzZYX1, UTIL_FORMAT_COLORSPACE_RGB),
      Rgba8("R8G8B8A8_SRGB", ChUN(8), ChUN(8), SwzXYZW, UTIL_FORMAT_COLORSPACE_SRGB),
      Rgba8("R8G8B8A8_SNORM", ChSN(8), ChSN(8), SwzXYZW, UTIL_FORMAT_COLORSPACE_RGB),
      Rgba8("R8G8B8A8_USCALED", ChUS(8), ChUS(8), SwzXYZW, UTIL_FORMAT_COLORSPACE_RGB),
      Rgba8("R8G8B8A8_UINT", ChUP(8), ChUP(8), SwzXYZW, UTIL_FORMAT_COLORSPACE_RGB),
      Rgba8("R8G8B8A8_SINT", ChSP(8), ChSP(8), SwzXYZW, UTIL_FORMAT_COLORSPACE_RGB),
      One8("R8_UNORM", ChUN(8), SwzX001),
      One8("L8_UNORM", ChUN(8), SwzXXX1),
      One8("I8_UNORM", ChUN(8), SwzXXXX),
      One8("A8_UNORM", ChUN(8), Swz000X),
      One8("R8_SNORM", ChSN(8), SwzX001),
      One8("R8_UINT", ChUP(8), SwzX001),
      One8("R8_SINT", ChSP(8), SwzX001),
      Description("R32_FLOAT", UTIL_FORMAT_LAYOUT_PLAIN, 1, 1, 32, 1,
                  <<ChF(32), ChNone, ChNone, ChNone>>, SwzX001, UTIL_FORMAT_COLORSPACE_RGB),
      Description("R10G10B10A2_USCALED", UTIL_FORMAT_LAYOUT_PLAIN, 1, 1, 32, 4,
                  <<ChUS(10), ChUS(10), ChUS(10), ChUS(2)>>, SwzXYZW,
                  UTIL_FORMAT_COLORSPACE_RGB),
      Description("R10G10B10X2_USCALED", UTIL_FORMAT_LAYOUT_PLAIN, 1, 1, 32, 4,
                  <<ChUS(10), ChUS(10), ChUS(10), ChX(2)>>, SwzXYZ1,
                  UTIL_FORMAT_COLORSPACE_RGB),
      Description("Z24_UNORM_S8_UINT", UTIL_FORMAT_LAYOUT_PLAIN, 1, 1, 32, 2,
                  <<ChUN(24), ChUP(8), ChNone, ChNone>>, SwzXY__, UTIL_FORMAT_COLORSPACE_ZS),
      Description("Z24X8_UNORM", UTIL_FORMAT_LAYOUT_PLAIN, 1, 1, 32, 2,
                  <<ChUN(24), ChX(8), ChNone, ChNone>>, SwzX___, UTIL_FORMAT_COLORSPACE_ZS),
      Description("S8_UINT", UTIL_FORMAT_LAYOUT_PLAIN, 1, 1, 8, 1,
                  <<ChUP(8), ChNone, ChNone, ChNone>>, Swz_X__, UTIL_FORMAT_COLORSPACE_ZS),
      Description("DXT1_RGB", UTIL_FORMAT_LAYOUT_S3TC, 4, 4, 64, 1,
                  <<ChX(64), ChNone, ChNone, ChNone>>, SwzXYZ1, UTIL_FORMAT_COLORSPACE_RGB),
      Description("DXT1_SRGB", UTIL_FORMAT_LAYOUT_S3TC, 4, 4, 64, 1,
                  <<ChX(64), ChNone, ChNone, ChNone>>, SwzXYZ1, UTIL_FORMAT_COLORSPACE_SRGB) }

util_format_description(format) == CHOOSE d \in FormatTable : d.format = format

(***************************************************************************)
(* util_is_format_compatible                                               *)
(***************************************************************************)
IsFormatCompatible_NoColorspace(s, d) ==
    IF s.format = d.format THEN TRUE
    ELSE IF s.layout # UTIL_FORMAT_LAYOUT_PLAIN \/ d.layout # UTIL_FORMAT_LAYOUT_PLAIN
    THEN FALSE
    ELSE IF s.block.bits # d.block.bits \/ s.nr_channels # d.nr_channels
    THEN FALSE
    ELSE IF \E chan \in 0..3 : s.channel[chan].size # d.channel[chan].size
    THEN FALSE
    ELSE \A chan \in 0..3 :
            LET swizzle == d.swizzle[chan] IN
            swizzle < 4 =>
                /\ s.swizzle[chan] = swizzle
                /\ s.channel[swizzle].type = d.channel[swizzle].type
                /\ s.channel[swizzle].normalized = d.channel[swizzle].normalized

util_is_format_compatible(s, d) ==
    IF s.format = d.format THEN TRUE
    ELSE IF s.layout # UTIL_FORMAT_LAYOUT_PLAIN \/ d.layout # UTIL_FORMAT_LAYOUT_PLAIN
    THEN FALSE
    ELSE IF \/ s.block.bits # d.block.bits
            \/ s.nr_channels # d.nr_channels
            \/ s.colorspace # d.colorspace
    THEN FALSE
    ELSE IF \E chan \in 0..3 : s.channel[chan].size # d.channel[chan].size
    THEN FALSE
    ELSE \A chan \in 0..3 :
            LET swizzle == d.swizzle[chan] IN
            swizzle < 4 =>
                /\ s.swizzle[chan] = swizzle
                /\ s.channel[swizzle].type = d.channel[swizzle].type
                /\ s.channel[swizzle].normalized = d.channel[swizzle].normalized

(***************************************************************************)
(* Format predicates                                                       *)
(***************************************************************************)
util_format_get_first_non_void_channel(format) ==
    LET desc == util_format_description(format)
        nonvoid == {i \in 0..3 : desc.channel[i].type # UTIL_FORMAT_TYPE_VOID}
    IN  IF nonvoid = {} THEN -1
        ELSE CHOOSE i \in nonvoid : \A j \in nonvoid : i <= j

util_format_is_pure_sint(format) ==
    LET desc == util_format_description(format)
        i == util_format_get_first_non_void_channel(format)
    IN  IF i = -1 THEN FALSE
        ELSE desc.channel[i].type = UTIL_FORMAT_TYPE_SIGNED /\ desc.channel[i].pure_integer

util_format_is_pure_uint_AnyType(format) ==
    LET desc == util_format_description(format)
        i == util_format_get_first_non_void_channel(format)
    IN  IF i = -1 THEN FALSE ELSE desc.channel[i].pure_integer

util_format_is_pure_uint(format) ==
    LET desc == util_format_description(format)
        i == util_format_get_first_non_void_channel(format)
    IN  IF i = -1 THEN FALSE
        ELSE desc.channel[i].type = UTIL_FORMAT_TYPE_UNSIGNED /\ desc.channel[i].pure_integer

util_format_fits_8unorm(format_desc) ==
    IF format_desc.colorspace = UTIL_FORMAT_COLORSPACE_SRGB THEN FALSE
    ELSE IF format_desc.layout = UTIL_FORMAT_LAYOUT_S3TC THEN TRUE
    ELSE IF format_desc.layout = UTIL_FORMAT_LAYOUT_PLAIN
    THEN \A chan \in 0..3 :
            chan < format_desc.nr_channels =>
                LET ch == format_desc.channel[chan] IN
                \/ ch.type = UTIL_FORMAT_TYPE_VOID
                \/ /\ ch.type = UTIL_FORMAT_TYPE_UNSIGNED
                   /\ ch.normalized
                   /\ ch.size <= 8
    ELSE FALSE

util_format_get_blocksize(format) ==
    LET bits == util_format_description(format).block.bits
    IN  IF bits \div 8 = 0 THEN 1 ELSE bits \div 8

util_format_get_blockwidth(format) == util_format_description(format).block.width

util_format_get_blockheight(format) == util_format_description(format).block.height

(***************************************************************************)
(* Memory: a buffer is a function from byte addresses 0..n-1 to bytes.     *)
(* A pointer into a buffer is an address.                                  *)
(***************************************************************************)
memcpy_ShortByOne(d, dp, s, sp, n) ==
    [a \in DOMAIN d |-> IF dp <= a /\ a < dp + n - 1 THEN s[sp + (a - dp)] ELSE d[a]]

memcpy(d, dp, s, sp, n) ==
    [a \in DOMAIN d |-> IF dp <= a /\ a < dp + n THEN s[sp + (a - dp)] ELSE d[a]]

(* The row loop of util_copy_rect, rows i..height-1. *)
RECURSIVE CopyRows(_, _, _, _, _, _, _, _, _)
CopyRows(d, dp, s, sp, width, dst_stride, src_stride, i, height) ==
    IF i >= height THEN d
    ELSE CopyRows(memcpy(d, dp, s, sp, width), dp + dst_stride, s, sp + src_stride,
                  width, dst_stride, src_stride, i + 1, height)

(* (unsigned)src_stride == width, for widths below 2^31. *)
EqUnsigned(width, src_stride) == src_stride >= 0 /\ width = src_stride

util_copy_rect_NoBlocksize(d, dp, format, dst_stride, dst_x, dst_y, width, height, s, sp, src_stride, src_x, src_y) ==
    LET blocksize == util_format_get_blocksize(format)
        dp2 == dp + dst_x * blocksize + dst_y * dst_stride
        sp2 == sp + src_x * blocksize + src_y * src_stride
    IN  CopyRows(d, dp2, s, sp2, width, dst_stride, src_stride, 0, height)

util_copy_rect_RoundsDown(d, dp, format, dst_stride, dst_x, dst_y, width, height, s, sp, src_stride, src_x, src_y) ==
    LET src_stride_pos == IF src_stride < 0 THEN -src_stride ELSE src_stride
        blocksize == util_format_get_blocksize(format)
        blockwidth == util_format_get_blockwidth(format)
        blockheight == util_format_get_blockheight(format)
        dp2 == dp + (dst_x \div blockwidth) * blocksize + (dst_y \div blockheight) * dst_stride
        sp2 == sp + (src_x \div blockwidth) * blocksize + (src_y \div blockheight) * src_stride_pos
        wbytes == (width \div blockwidth) * blocksize
        bheight == height \div blockheight
    IN  IF wbytes = dst_stride /\ EqUnsigned(wbytes, src_stride)
        THEN memcpy(d, dp2, s, sp2, bheight * wbytes)
        ELSE CopyRows(d, dp2, s, sp2, wbytes, dst_stride, src_stride, 0, bheight)

(* util_copy_rect(dst, format, ...); dp and sp are the pointers dst and src. *)
util_copy_rect(d, dp, format, dst_stride, dst_x, dst_y, width, height, s, sp, src_stride, src_x, src_y) ==
    LET src_stride_pos == IF src_stride < 0 THEN -src_stride ELSE src_stride
        blocksize == util_format_get_blocksize(format)
        blockwidth == util_format_get_blockwidth(format)
        blockheight == util_format_get_blockheight(format)
        bdst_x == dst_x \div blockwidth
        bdst_y == dst_y \div blockheight
        bwidth == (width + blockwidth - 1) \div blockwidth
        bheight == (height + blockheight - 1) \div blockheight
        bsrc_x == src_x \div blockwidth
        bsrc_y == src_y \div blockheight
        dp2 == dp + bdst_x * blocksize + bdst_y * dst_stride
        sp2 == sp + bsrc_x * blocksize + bsrc_y * src_stride_pos
        wbytes == bwidth * blocksize
    IN  IF wbytes = dst_stride /\ EqUnsigned(wbytes, src_stride)
        THEN memcpy(d, dp2, s, sp2, bheight * wbytes)
        ELSE CopyRows(d, dp2, s, sp2, wbytes, dst_stride, src_stride, 0, bheight)

(***************************************************************************)
(* The pack and unpack functions of the format table, for the formats      *)
(* whose channels are whole bytes and whose block is one pixel.  Colour    *)
(* values are exact rationals counted in units of 1/(255*127); the         *)
(* intermediate row holds 8-bit unorm, int, unsigned or float RGBA.        *)
(***************************************************************************)
UnitsPerOne == 32385

Clamp(v, lo, hi) == IF v < lo THEN lo ELSE IF v > hi THEN hi ELSE v

RoundDiv(a, b) == IF a >= 0 THEN (2 * a + b) \div (2 * b) ELSE -((2 * (-a) + b) \div (2 * b))

Block(m, p, n) == [k \in 0..(n - 1) |-> m[p + k]]

WriteBlock(d, p, blk, n) ==
    [a \in DOMAIN d |-> IF p <= a /\ a < p + n THEN blk[a - p] ELSE d[a]]

(* Byte offset of channel c in the block. *)
RECURSIVE ChanOffset(_, _)
ChanOffset(desc, c) ==
    IF c = 0 THEN 0 ELSE ChanOffset(desc, c - 1) + desc.channel[c - 1].size \div 8

(* Little-endian value of n bytes of the block from byte off. *)
RECURSIVE BytesLE(_, _, _)
BytesLE(blk, off, n) ==
    IF n = 0 THEN 0 ELSE blk[off] + 256 * BytesLE(blk, off + 1, n - 1)

ChanRaw(desc, blk, c) == BytesLE(blk, ChanOffset(desc, c), desc.channel[c].size \div 8)

Signed8(raw) == IF raw >= 128 THEN raw - 256 ELSE raw

ToByte(v) == IF v < 0 THEN v + 256 ELSE v

ChanInt(ch, raw) == IF ch.type = UTIL_FORMAT_TYPE_SIGNED THEN Signed8(raw) ELSE raw

(* The value a channel stores, in units. *)
ChanValue(ch, raw) ==
    IF ch.type = UTIL_FORMAT_TYPE_VOID THEN 0
    ELSE IF ch.normalized
    THEN IF ch.type = UTIL_FORMAT_TYPE_SIGNED
         THEN MAX2(Signed8(raw), -127) * 255
         ELSE raw * 127
    ELSE ChanInt(ch, raw) * UnitsPerOne

(* A float read as a 32-bit integer: zero for 0.0, beyond every 8-bit range otherwise. *)
FloatBits(units) == IF units = 0 THEN 0 ELSE 1073741824

EncodeUnits(ch, u) ==
    IF ch.normalized
    THEN IF ch.type = UTIL_FORMAT_TYPE_SIGNED
         THEN ToByte(RoundDiv(Clamp(u, -UnitsPerOne, UnitsPerOne), 255))
         ELSE RoundDiv(Clamp(u, 0, UnitsPerOne), 127)
    ELSE IF ch.type = UTIL_FORMAT_TYPE_SIGNED
         THEN ToByte(Clamp(IF u >= 0 THEN u \div UnitsPerOne ELSE -((-u) \div UnitsPerOne),
                           -128, 127))
         ELSE Clamp(u \div UnitsPerOne, 0, 255)

EncodeInt(ch, v) ==
    IF ch.type = UTIL_FORMAT_TYPE_SIGNED THEN ToByte(Clamp(v, -128, 127))
    ELSE Clamp(v, 0, 255)

(* unpack_rgba_8unorm / unpack_rgba of desc: component i of one pixel. *)
UnpackComponent(desc, path, blk, i) ==
    LET sw == desc.swizzle[i]
        pure == \E c \in 0..3 : desc.channel[c].pure_integer
    IN  IF sw < 4
        THEN LET ch == desc.channel[sw]
                 raw == ChanRaw(desc, blk, sw)
             IN  CASE path = "8unorm" -> RoundDiv(Clamp(ChanValue(ch, raw), 0, UnitsPerOne), 127)
                   [] path = "float" -> ChanValue(ch, raw)
                   [] OTHER -> IF pure THEN ChanInt(ch, raw) ELSE FloatBits(ChanValue(ch, raw))
        ELSE IF sw = PIPE_SWIZZLE_1
        THEN CASE path = "8unorm" -> 255
               [] path = "float" -> UnitsPerOne
               [] OTHER -> IF pure THEN 1 ELSE FloatBits(UnitsPerOne)
        ELSE 0

UnpackPixel(desc, path, blk) == [i \in 0..3 |-> UnpackComponent(desc, path, blk, i)]

(* pack_rgba_8unorm / _sint / _uint / _float of desc: byte c of the block. *)
PackChannel(desc, path, rgba, c) ==
    LET ch == desc.channel[c]
        from == {i \in 0..3 : desc.swizzle[i] = c}
    IN  IF ch.type = UTIL_FORMAT_TYPE_VOID \/ from = {} THEN 0
        ELSE LET v == rgba[CHOOSE i \in from : \A j \in from : i <= j]
             IN  CASE path = "8unorm" -> EncodeUnits(ch, v * 127)
                   [] path = "float" -> EncodeUnits(ch, v)
                   [] OTHER -> EncodeInt(ch, v)

PackPixel(desc, path, rgba) ==
    [k \in 0..(desc.block.bits \div 8 - 1) |-> PackChannel(desc, path, rgba, k)]

(* The depth and the stencil channel of a descriptor, -1 when it has none. *)
DepthChannel(desc) ==
    IF desc.colorspace = UTIL_FORMAT_COLORSPACE_ZS /\ desc.swizzle[0] < 4
    THEN desc.swizzle[0] ELSE -1

StencilChannel(desc) ==
    IF desc.colorspace = UTIL_FORMAT_COLORSPACE_ZS /\ desc.swizzle[1] < 4
    THEN desc.swizzle[1] ELSE -1

(* unpack_z_float and unpack_s_8uint: the raw depth bits (an exact float), the stencil. *)
UnpackZ(desc, blk) == IF DepthChannel(desc) = -1 THEN 0 ELSE ChanRaw(desc, blk, DepthChannel(desc))

UnpackS(desc, blk) ==
    IF StencilChannel(desc) = -1 THEN 0 ELSE ChanRaw(desc, blk, StencilChannel(desc))

(* Byte k of value v. *)
ByteOf(v, k) == (v \div (256 ^ k)) % 256

(* pack_z_float: writes the depth bits, keeps a stencil channel, clears padding. *)
PackZ(desc, old, zval) ==
    LET zc == DepthChannel(desc)
        sc == StencilChannel(desc)
    IN  IF zc = -1 THEN old
        ELSE [k \in DOMAIN old |->
                IF /\ k >= ChanOffset(desc, zc)
                   /\ k < ChanOffset(desc, zc) + desc.channel[zc].size \div 8
                THEN ByteOf(zval, k - ChanOffset(desc, zc))
                ELSE IF sc # -1 /\ k = ChanOffset(desc, sc) THEN old[k]
                ELSE 0]

(* pack_s_8uint: writes the stencil byte, keeps the rest. *)
PackS(desc, old, sval) ==
    LET sc == StencilChannel(desc)
    IN  IF sc = -1 THEN old
        ELSE [k \in DOMAIN old |-> IF k = ChanOffset(desc, sc) THEN sval ELSE old[k]]

(* One batch of util_format_translate: unpack rows from src_row, pack them at dst_row.
   Pixel n of the batch is in row n \div width. *)
RECURSIVE ConvertRows(_, _, _, _, _, _, _, _, _, _, _, _)
ConvertRows(d, dp, s, sp, sdesc, ddesc, path, width, rows, dst_stride, src_stride, n) ==
    IF n >= rows * width THEN d
    ELSE LET sbs == sdesc.block.bits \div 8
             dbs == ddesc.block.bits \div 8
             r == n \div width
             x == n % width
             rgba == UnpackPixel(sdesc, path, Block(s, sp + r * src_stride + x * sbs, sbs))
             d2 == WriteBlock(d, dp + r * dst_stride + x * dbs, PackPixel(ddesc, path, rgba), dbs)
         IN  ConvertRows(d2, dp, s, sp, sdesc, ddesc, path, width, rows,
                         dst_stride, src_stride, n + 1)

(* One scanline of the depth/stencil path: pixels x..width-1. *)
RECURSIVE ConvertZsRow(_, _, _, _, _, _, _, _, _, _)
ConvertZsRow(d, dp, s, sp, sdesc, ddesc, doZ, doS, width, x) ==
    IF x >= width THEN d
    ELSE LET sbs == sdesc.block.bits \div 8
             dbs == ddesc.block.bits \div 8
             sblk == Block(s, sp + x * sbs, sbs)
             old == Block(d, dp + x * dbs, dbs)
             afterZ == IF doZ THEN PackZ(ddesc, old, UnpackZ(sdesc, sblk)) ELSE old
             afterS == IF doS THEN PackS(ddesc, afterZ, UnpackS(sdesc, sblk)) ELSE afterZ
         IN  ConvertZsRow(WriteBlock(d, dp + x * dbs, afterS, dbs), dp, s, sp, sdesc, ddesc,
                          doZ, doS, width, x + 1)

(***************************************************************************)
(* Bounds of the model and the inputs of a call                            *)
(***************************************************************************)
MaxWidth == 2
MaxHeight == 2
MaxDepth == 2

TranslateFormats ==
    { "R8G8B8A8_UNORM", "R8G8B8X8_UNORM", "B8G8R8A8_UNORM", "R8G8B8A8_SNORM", "R8_SNORM",
      "R8G8B8A8_USCALED", "R8G8B8A8_UINT", "R8_UINT", "R8G8B8A8_SINT", "R8_SINT",
      "Z24_UNORM_S8_UINT", "Z24X8_UNORM", "S8_UINT" }

AllUnpack == {"unpack_rgba_8unorm", "unpack_rgba", "unpack_z_float", "unpack_s_8uint"}

AllPack == {"pack_rgba_8unorm", "pack_rgba_sint", "pack_rgba_uint", "pack_rgba_float",
            "pack_z_float", "pack_s_8uint"}

(* Capability tables: every function present, or one of them null. *)
UnpackChoices == {AllUnpack} \cup {AllUnpack \ {c} : c \in AllUnpack}

PackChoices == {AllPack} \cup {AllPack \ {c} : c \in AllPack}

Stride(format) == MaxWidth * util_format_get_blocksize(format)

SliceStride(format) == MaxHeight * Stride(format)

MemSize(format) == MaxDepth * SliceStride(format)

SrcMemory(format) == [a \in 0..(MemSize(format) - 1) |-> (a * 37 + 90) % 256]

DstMemory(format) == [a \in 0..(MemSize(format) - 1) |-> 85]

Rects ==
    { r \in [x : 0..(MaxWidth - 1), y : 0..(MaxHeight - 1), w : 1..MaxWidth, h : 1..MaxHeight] :
        r.x + r.w <= MaxWidth /\ r.y + r.h <= MaxHeight }

FullRect == [x |-> 0, y |-> 0, w |-> MaxWidth, h |-> MaxHeight]

Call(kind, dst_format, dx, dy, src_format, r, depth) ==
    [kind |-> kind,
     dst_format |-> dst_format, dst_stride |-> Stride(dst_format),
     dst_slice_stride |-> SliceStride(dst_format), dst_x |-> dx, dst_y |-> dy, dst_z |-> 0,
     src_format |-> src_format, src_stride |-> Stride(src_format),
     src_slice_stride |-> SliceStride(src_format), src_x |-> r.x, src_y |-> r.y, src_z |-> 0,
     width |-> r.w, height |-> r.h, depth |-> depth]

NoLocals ==
    [dst_row |-> 0, src_row |-> 0, x_step |-> 0, y_step |-> 0, dst_step |-> 0, src_step |-> 0,
     height |-> 0, path |-> "none"]

NoHeap == [tmp_z |-> "none", tmp_s |-> "none", tmp_row |-> "none"]

(* consulted: the capability pointers read so far; entry_dst: dst as it was when
   the running util_format_translate was entered. *)
NoTrace(d) == [null_call |-> FALSE, heap_error |-> FALSE, alloc_failed |-> FALSE,
               packed |-> FALSE, consulted |-> {}, entry_dst |-> d]

SrcDesc == util_format_description(call.src_format)

DstDesc == util_format_description(call.dst_format)

(***************************************************************************)
(* The scratch buffers of a call: malloc and free                          *)
(***************************************************************************)
free_Leaks(h, b) == h

free(h, b) == IF h[b] = "live" THEN [h EXCEPT ![b] = "freed"] ELSE h

DoubleFree(h, b) == h[b] = "freed"

UseAfterFree(h, b) == h[b] # "live"

(***************************************************************************)
(* util_format_translate                                                   *)
(***************************************************************************)
(* The branch the if/else chain of util_format_translate takes. *)
Branch ==
    IF \/ SrcDesc.colorspace = UTIL_FORMAT_COLORSPACE_ZS
       \/ DstDesc.colorspace = UTIL_FORMAT_COLORSPACE_ZS
    THEN "zs"
    ELSE IF util_format_fits_8unorm(SrcDesc) \/ util_format_fits_8unorm(DstDesc)
    THEN "8unorm"
    ELSE IF \/ util_format_is_pure_sint(call.src_format)
            \/ util_format_is_pure_sint(call.dst_format)
    THEN "sint"
    ELSE IF \/ util_format_is_pure_uint(call.src_format)
            \/ util_format_is_pure_uint(call.dst_format)
    THEN "uint"
    ELSE "float"

(* dst_row, src_row and the steps, computed before the branches. *)
Locals(path) ==
    LET y_step == MAX2(DstDesc.block.height, SrcDesc.block.height)
        x_step == MAX2(DstDesc.block.width, SrcDesc.block.width)
    IN  [dst_row |-> layer.dst_layer + call.dst_y * call.dst_stride
                        + call.dst_x * (DstDesc.block.bits \div 8),
         src_row |-> layer.src_layer + call.src_y * call.src_stride
                        + call.src_x * (SrcDesc.block.bits \div 8),
         x_step |-> x_step, y_step |-> y_step,
         dst_step |-> (y_step \div DstDesc.block.height) * call.dst_stride,
         src_step |-> (y_step \div SrcDesc.block.height) * call.src_stride,
         height |-> call.height, path |-> path]

(* The capabilities a batch path calls. *)
UnpackOf(path) == IF path = "8unorm" THEN "unpack_rgba_8unorm" ELSE "unpack_rgba"

PackOf(path) ==
    CASE path = "8unorm" -> "pack_rgba_8unorm"
      [] path = "sint" -> "pack_rgba_sint"
      [] path = "uint" -> "pack_rgba_uint"
      [] OTHER -> "pack_rgba_float"

Return(value) == ret' = value /\ pc' = "return"

(* The pointers read by a test of the form  u && p  or  !u || !p. *)
Consult(u, p) == {u} \cup (IF u \in unpack THEN {p} ELSE {})

(* The trivial case: util_copy_rect, return TRUE. *)
TranslateCompatible ==
    /\ pc = "translate"
    /\ util_is_format_compatible(SrcDesc, DstDesc)
    /\ dst' = util_copy_rect(dst, layer.dst_layer, call.dst_format, call.dst_stride,
                             call.dst_x, call.dst_y, call.width, call.height,
                             src, layer.src_layer, call.src_stride, call.src_x, call.src_y)
    /\ Return("TRUE")
    /\ UNCHANGED <<call, unpack, pack, src, loc, heap, trace, layer, ret3d, trip>>
    /\ UNCHANGED <<fmtVars, nirVars, linkVars>>

TranslateZS ==
    /\ pc = "translate"
    /\ ~util_is_format_compatible(SrcDesc, DstDesc)
    /\ Branch = "zs"
    /\ loc' = Locals("zs")
    /\ pc' = "zs_malloc_z"
    /\ UNCHANGED <<call, unpack, pack, src, dst, heap, trace, ret, layer, ret3d, trip>>
    /\ UNCHANGED <<fmtVars, nirVars, linkVars>>

(* if (unpack->unpack_z_float && pack->pack_z_float) tmp_z = malloc(...) *)
ZsMallocZ ==
    /\ pc = "zs_malloc_z"
    /\ \E ok \in BOOLEAN :
          LET want == "unpack_z_float" \in unpack /\ "pack_z_float" \in pack
          IN  /\ heap' = IF want /\ ok THEN [heap EXCEPT !.tmp_z = "live"] ELSE heap
              /\ trace' = [trace EXCEPT
                             !.alloc_failed = @ \/ (want /\ ~ok),
                             !.consulted = @ \cup Consult("unpack_z_float", "pack_z_float")]
    /\ pc' = "zs_malloc_s"
    /\ UNCHANGED <<call, unpack, pack, src, dst, loc, ret, layer, ret3d, trip>>
    /\ UNCHANGED <<fmtVars, nirVars, linkVars>>

(* if (unpack->unpack_s_8uint && pack->pack_s_8uint) tmp_s = malloc(...) *)
ZsMallocS ==
    /\ pc = "zs_malloc_s"
    /\ \E ok \in BOOLEAN :
          LET want == "unpack_s_8uint" \in unpack /\ "pack_s_8uint" \in pack
          IN  /\ heap' = IF want /\ ok THEN [heap EXCEPT !.tmp_s = "live"] ELSE heap
              /\ trace' = [trace EXCEPT
                             !.alloc_failed = @ \/ (want /\ ~ok),
                             !.consulted = @ \cup Consult("unpack_s_8uint", "pack_s_8uint")]
    /\ pc' = "zs_loop"
    /\ UNCHANGED <<call, unpack, pack, src, dst, loc, ret, layer, ret3d, trip>>
    /\ UNCHANGED <<fmtVars, nirVars, linkVars>>

(* One iteration of while (height--). *)
ZsRow ==
    /\ pc = "zs_loop"
    /\ loc.height # 0
    /\ LET doZ == heap.tmp_z # "none"
           doS == heap.tmp_s # "none"
       IN  /\ dst' = IF doZ \/ doS
                     THEN ConvertZsRow(dst, loc.dst_row, src, loc.src_row, SrcDesc, DstDesc,
                                       doZ, doS, call.width, 0)
                     ELSE dst
           /\ trace' = [trace EXCEPT
                          !.packed = @ \/ doZ \/ doS,
                          !.consulted = @ \cup (IF doZ THEN {"unpack_z_float", "pack_z_float"}
                                                ELSE {})
                                         \cup (IF doS THEN {"unpack_s_8uint", "pack_s_8uint"}
                                                ELSE {}),
                          !.heap_error = @ \/ (doZ /\ UseAfterFree(heap, "tmp_z"))
                                           \/ (doS /\ UseAfterFree(heap, "tmp_s"))]
    /\ loc' = [loc EXCEPT !.height = @ - 1,
                          !.dst_row = @ + loc.dst_step,
                          !.src_row = @ + loc.src_step]
    /\ UNCHANGED <<pc, call, unpack, pack, src, heap, ret, layer, ret3d, trip>>
    /\ UNCHANGED <<fmtVars, nirVars, linkVars>>

(* free(tmp_s); free(tmp_z); return TRUE *)
ZsFree ==
    /\ pc = "zs_loop"
    /\ loc.height = 0
    /\ heap' = free(free(heap, "tmp_s"), "tmp_z")
    /\ trace' = [trace EXCEPT !.heap_error = @ \/ DoubleFree(heap, "tmp_s")
                                               \/ DoubleFree(heap, "tmp_z")]
    /\ Return("TRUE")
    /\ UNCHANGED <<call, unpack, pack, src, dst, loc, layer, ret3d, trip>>
    /\ UNCHANGED <<fmtVars, nirVars, linkVars>>

(* The 8-bit unorm branch up to its malloc. *)
Translate8unorm ==
    /\ pc = "translate"
    /\ ~util_is_format_compatible(SrcDesc, DstDesc)
    /\ Branch = "8unorm"
    /\ loc' = Locals("8unorm")
    /\ IF "unpack_rgba_8unorm" \notin unpack \/ "pack_rgba_8unorm" \notin pack
       THEN Return("FALSE")
       ELSE pc' = "malloc" /\ ret' = ret
    /\ trace' = [trace EXCEPT !.consulted = @ \cup Consult("unpack_rgba_8unorm", "pack_rgba_8unorm")]
    /\ UNCHANGED <<call, unpack, pack, src, dst, heap, layer, ret3d, trip>>
    /\ UNCHANGED <<fmtVars, nirVars, linkVars>>

TranslateSint_NoDomainCheck ==
    /\ pc = "translate"
    /\ ~util_is_format_compatible(SrcDesc, DstDesc)
    /\ Branch = "sint"
    /\ loc' = Locals("sint")
    /\ pc' = "malloc"
    /\ UNCHANGED <<call, unpack, pack, src, dst, heap, trace, ret, layer, ret3d, trip>>
    /\ UNCHANGED <<fmtVars, nirVars, linkVars>>

TranslateSint_ConvertsBeforeCheck ==
    /\ pc = "translate"
    /\ ~util_is_format_compatible(SrcDesc, DstDesc)
    /\ Branch = "sint"
    /\ loc' = Locals("sint")
    /\ IF util_format_is_pure_sint(call.src_format) # util_format_is_pure_sint(call.dst_format)
       THEN /\ dst' = ConvertRows(dst, Locals("sint").dst_row, src, Locals("sint").src_row,
                                  SrcDesc, DstDesc, "sint", call.width, call.height,
                                  call.dst_stride, call.src_stride, 0)
            /\ Return("FALSE")
       ELSE pc' = "malloc" /\ ret' = ret /\ dst' = dst
    /\ UNCHANGED <<call, unpack, pack, src, heap, trace, layer, ret3d, trip>>
    /\ UNCHANGED <<fmtVars, nirVars, linkVars>>

(* The pure signed branch up to its malloc. *)
TranslateSint ==
    /\ pc = "translate"
    /\ ~util_is_format_compatible(SrcDesc, DstDesc)
    /\ Branch = "sint"
    /\ loc' = Locals("sint")
    /\ IF util_format_is_pure_sint(call.src_format) # util_format_is_pure_sint(call.dst_format)
       THEN Return("FALSE")
       ELSE pc' = "malloc" /\ ret' = ret
    /\ UNCHANGED <<call, unpack, pack, src, dst, heap, trace, layer, ret3d, trip>>
    /\ UNCHANGED <<fmtVars, nirVars, linkVars>>

(* The pure unsigned branch up to its malloc. *)
TranslateUint ==
    /\ pc = "translate"
    /\ ~util_is_format_compatible(SrcDesc, DstDesc)
    /\ Branch = "uint"
    /\ loc' = Locals("uint")
    /\ IF "unpack_rgba" \notin unpack \/ "pack_rgba_uint" \notin pack
       THEN Return("FALSE")
       ELSE pc' = "malloc" /\ ret' = ret
    /\ trace' = [trace EXCEPT !.consulted = @ \cup Consult("unpack_rgba", "pack_rgba_uint")]
    /\ UNCHANGED <<call, unpack, pack, src, dst, heap, layer, ret3d, trip>>
    /\ UNCHANGED <<fmtVars, nirVars, linkVars>>

(* The float branch up to its malloc. *)
TranslateFloat ==
    /\ pc = "translate"
    /\ ~util_is_format_compatible(SrcDesc, DstDesc)
    /\ Branch = "float"
    /\ loc' = Locals("float")
    /\ IF "unpack_rgba" \notin unpack \/ "pack_rgba_float" \notin pack
       THEN Return("FALSE")
       ELSE pc' = "malloc" /\ ret' = ret
    /\ trace' = [trace EXCEPT !.consulted = @ \cup Consult("unpack_rgba", "pack_rgba_float")]
    /\ UNCHANGED <<call, unpack, pack, src, dst, heap, layer, ret3d, trip>>
    /\ UNCHANGED <<fmtVars, nirVars, linkVars>>

(* tmp_row = malloc(y_step * tmp_stride); if (!tmp_row) return FALSE; *)
Malloc ==
    /\ pc = "malloc"
    /\ \E ok \in BOOLEAN :
          IF ok
          THEN /\ heap' = [heap EXCEPT !.tmp_row = "live"]
               /\ pc' = "loop"
               /\ UNCHANGED <<trace, ret>>
          ELSE /\ trace' = [trace EXCEPT !.alloc_failed = TRUE]
               /\ Return("FALSE")
               /\ heap' = heap
    /\ UNCHANGED <<call, unpack, pack, src, dst, loc, layer, ret3d, trip>>
    /\ UNCHANGED <<fmtVars, nirVars, linkVars>>

(* A call through a null unpack or pack pointer of the running path. *)
NullCall == UnpackOf(loc.path) \notin unpack \/ PackOf(loc.path) \notin pack

(* One iteration of while (height >= y_step). *)
LoopBatch ==
    /\ pc = "loop"
    /\ loc.height >= loc.y_step
    /\ IF NullCall
       THEN /\ trace' = [trace EXCEPT !.null_call = TRUE,
                                      !.consulted = @ \cup Consult(UnpackOf(loc.path),
                                                                    PackOf(loc.path))]
            /\ pc' = "crashed"
            /\ UNCHANGED <<dst, loc>>
       ELSE /\ dst' = ConvertRows(dst, loc.dst_row, src, loc.src_row, SrcDesc, DstDesc,
                                  loc.path, call.width, loc.y_step,
                                  call.dst_stride, call.src_stride, 0)
            /\ trace' = [trace EXCEPT !.packed = TRUE,
                                      !.consulted = @ \cup {UnpackOf(loc.path), PackOf(loc.path)},
                                      !.heap_error = @ \/ UseAfterFree(heap, "tmp_row")]
            /\ loc' = [loc EXCEPT !.height = @ - loc.y_step,
                                  !.dst_row = @ + loc.dst_step,
                                  !.src_row = @ + loc.src_step]
            /\ pc' = pc
    /\ UNCHANGED <<call, unpack, pack, src, heap, ret, layer, ret3d, trip>>
    /\ UNCHANGED <<fmtVars, nirVars, linkVars>>

(* if (height) { the last rows }; free(tmp_row); return TRUE *)
LoopExit ==
    /\ pc = "loop"
    /\ loc.height < loc.y_step
    /\ IF loc.height # 0 /\ NullCall
       THEN /\ trace' = [trace EXCEPT !.null_call = TRUE,
                                      !.consulted = @ \cup Consult(UnpackOf(loc.path),
                                                                    PackOf(loc.path))]
            /\ pc' = "crashed"
            /\ UNCHANGED <<dst, heap, ret>>
       ELSE /\ dst' = IF loc.height # 0
                      THEN ConvertRows(dst, loc.dst_row, src, loc.src_row, SrcDesc, DstDesc,
                                       loc.path, call.width, loc.height,
                                       call.dst_stride, call.src_stride, 0)
                      ELSE dst
            /\ heap' = free(heap, "tmp_row")
            /\ trace' = [trace EXCEPT
                           !.packed = @ \/ loc.height # 0,
                           !.consulted = @ \cup (IF loc.height # 0
                                                 THEN {UnpackOf(loc.path), PackOf(loc.path)}
                                                 ELSE {}),
                           !.heap_error = @ \/ DoubleFree(heap, "tmp_row")
                                            \/ (loc.height # 0 /\ UseAfterFree(heap, "tmp_row"))]
            /\ Return("TRUE")
    /\ UNCHANGED <<call, unpack, pack, src, loc, layer, ret3d, trip>>
    /\ UNCHANGED <<fmtVars, nirVars, linkVars>>

(***************************************************************************)
(* util_format_translate_3d                                                *)
(***************************************************************************)
(* for (z = 0; z < depth; ++z): the loop test and the call of the slice. *)
Translate3dLoop ==
    /\ pc = "translate_3d"
    /\ IF layer.z < call.depth
       THEN pc' = "translate" /\ ret3d' = ret3d
       ELSE pc' = "done" /\ ret3d' = "TRUE"
    /\ loc' = NoLocals
    /\ heap' = NoHeap
    /\ trace' = [trace EXCEPT !.entry_dst = dst]
    /\ UNCHANGED <<call, unpack, pack, src, dst, ret, layer, trip>>
    /\ UNCHANGED <<fmtVars, nirVars, linkVars>>

(* The slice returned: return FALSE, or advance both layers. *)
Translate3dReturn ==
    /\ pc = "return"
    /\ call.kind = "3d"
    /\ IF ret = "FALSE"
       THEN pc' = "done" /\ ret3d' = "FALSE" /\ layer' = layer
       ELSE /\ pc' = "translate_3d"
            /\ ret3d' = ret3d
            /\ layer' = [z |-> layer.z + 1,
                         dst_layer |-> layer.dst_layer + call.dst_slice_stride,
                         src_layer |-> layer.src_layer + call.src_slice_stride]
    /\ UNCHANGED <<call, unpack, pack, src, dst, loc, heap, trace, ret, trip>>
    /\ UNCHANGED <<fmtVars, nirVars, linkVars>>

(***************************************************************************)
(* The round trip: after A -> B succeeded through the compatible path,     *)
(* translate the result back, B -> A, into a fresh buffer.                 *)
(***************************************************************************)
TranslateBack ==
    /\ pc = "return"
    /\ call.kind = "2d"
    /\ trip.n = 1
    /\ ret = "TRUE"
    /\ util_is_format_compatible(SrcDesc, DstDesc)
    /\ \E u \in UnpackChoices, p \in PackChoices : unpack' = u /\ pack' = p
    /\ call' = Call("2d", call.src_format, call.src_x, call.src_y, call.dst_format,
                    [x |-> call.dst_x, y |-> call.dst_y, w |-> call.width, h |-> call.height],
                    1)
    /\ src' = dst
    /\ dst' = DstMemory(call.src_format)
    /\ trip' = [trip EXCEPT !.n = 2]
    /\ pc' = "translate"
    /\ ret' = "none"
    /\ loc' = NoLocals
    /\ heap' = NoHeap
    /\ trace' = NoTrace(DstMemory(call.src_format))
    /\ UNCHANGED <<layer, ret3d>>
    /\ UNCHANGED <<fmtVars, nirVars, linkVars>>

(***************************************************************************)
(* nir_remove_unused_io_vars                                               *)
(* A mask (uint64_t) is the set of its set bits; a "used" argument is an   *)
(* array of 4 masks, one per location_frac.                                *)
(***************************************************************************)
VARYING_SLOT_VAR0 == 32
VARYING_SLOT_PATCH0 == 64

MaxVars == 2
MaxRuns == 2

nir_var_shader_in == "shader_in"
nir_var_shader_out == "shader_out"
nir_var_shader_temp == "shader_temp"

(* glsl_count_attribute_slots of the variable's (per-vertex element) type is the
   field slots of the variable. *)
get_variable_io_mask(var) ==
    IF var.location < 0 THEN {}
    ELSE LET location == IF var.patch THEN var.location - VARYING_SLOT_PATCH0
                         ELSE var.location
         IN  {b \in location..(location + var.slots - 1) : b < 64}

(* The body of nir_foreach_variable_with_modes_safe for one variable: the variable
   after it, demoted or as it was. *)
RemoveVisitVar_IgnoresXfb(var, mode, used_by_other_stage, used_by_other_stage_patches) ==
    LET used == IF var.patch THEN used_by_other_stage_patches ELSE used_by_other_stage
    IN  IF var.mode # mode THEN var
        ELSE IF var.location < VARYING_SLOT_VAR0 /\ var.location >= 0 THEN var
        ELSE IF var.always_active_io THEN var
        ELSE IF used[var.location_frac] \cap get_variable_io_mask(var) = {}
        THEN [var EXCEPT !.location = 0, !.mode = nir_var_shader_temp]
        ELSE var

RemoveVisitVar(var, mode, used_by_other_stage, used_by_other_stage_patches) ==
    LET used == IF var.patch THEN used_by_other_stage_patches ELSE used_by_other_stage
    IN  IF var.mode # mode THEN var
        ELSE IF var.location < VARYING_SLOT_VAR0 /\ var.location >= 0 THEN var
        ELSE IF var.always_active_io THEN var
        ELSE IF var.explicit_xfb_buffer THEN var
        ELSE IF used[var.location_frac] \cap get_variable_io_mask(var) = {}
        THEN [var EXCEPT !.location = 0, !.mode = nir_var_shader_temp]
        ELSE var

(* One iteration of the loop over the shader's variables. *)
RemoveVisit ==
    /\ npc = "loop"
    /\ nidx <= Len(shader.vars)
    /\ LET var == shader.vars[nidx]
           after == RemoveVisitVar(var, nargs.mode, nargs.used_by_other_stage,
                                   nargs.used_by_other_stage_patches)
       IN  /\ shader' = [shader EXCEPT !.vars[nidx] = after]
           /\ progress' = (progress \/ after # var)
    /\ nidx' = nidx + 1
    /\ UNCHANGED <<npc, nargs>>
    /\ UNCHANGED <<fmtVars, trVars, linkVars>>

(* if (progress) nir_fixup_deref_modes(shader); return progress; *)
RemoveReturn ==
    /\ npc = "loop"
    /\ nidx > Len(shader.vars)
    /\ npc' = "done"
    /\ UNCHANGED <<shader, nargs, nidx, progress>>
    /\ UNCHANGED <<fmtVars, trVars, linkVars>>

(***************************************************************************)
(* Inputs of nir_remove_unused_io_vars                                     *)
(***************************************************************************)
Var(mode, patch, location, location_frac, slots, always_active_io, explicit_xfb_buffer) ==
    [mode |-> mode, patch |-> patch, location |-> location, location_frac |-> location_frac,
     slots |-> slots, always_active_io |-> always_active_io,
     explicit_xfb_buffer |-> explicit_xfb_buffer]

(* Where a variable may sit: unassigned, a built-in slot, generic slots, a patch slot. *)
VarPlaces ==
    { <<FALSE, -1>>, <<FALSE, 0>>, <<FALSE, VARYING_SLOT_VAR0>>,
      <<FALSE, VARYING_SLOT_VAR0 + 1>>, <<TRUE, VARYING_SLOT_PATCH0>> }

AllVarShapes ==
    { Var(m, pl[1], pl[2], f, s, a, x) :
        m \in {nir_var_shader_in, nir_var_shader_out}, pl \in VarPlaces,
        f \in {0, 1}, s \in {1, 2}, a \in BOOLEAN, x \in BOOLEAN }

FewVarShapes ==
    { Var(m, pl[1], pl[2], 0, s, FALSE, FALSE) :
        m \in {nir_var_shader_in, nir_var_shader_out},
        pl \in {<<FALSE, VARYING_SLOT_VAR0>>, <<TRUE, VARYING_SLOT_PATCH0>>},
        s \in {1, 2} }

UsedArray(at0, at1) == [c \in 0..3 |-> IF c = 0 THEN at0 ELSE IF c = 1 THEN at1 ELSE {}]

UsedChoices ==
    { UsedArray(a, b) :
        a \in SUBSET {VARYING_SLOT_VAR0, VARYING_SLOT_VAR0 + 1}, b \in {{}, {VARYING_SLOT_VAR0}} }

UsedPatchChoices == { UsedArray(a, b) : a \in {{}, {0}}, b \in {{}, {0}} }

VarLists ==
    { <<v>> : v \in AllVarShapes }
    \cup UNION { [1..n -> FewVarShapes] : n \in 2..MaxVars }

(***************************************************************************)
(* The three programs of the model.  Each runs on its own variables; the   *)
(* variables of the other two stay at their idle values.                   *)
(***************************************************************************)
QryIdle == qpc = "idle" /\ query = "none" /\ answer = "none"

FmtIdle ==
    /\ cpc = "idle" /\ src_desc = "none" /\ dst_desc = "none" /\ compatible = FALSE
    /\ QryIdle

TrIdle ==
    /\ pc = "idle" /\ call = "none" /\ unpack = {} /\ pack = {}
    /\ src = <<>> /\ dst = <<>> /\ loc = NoLocals /\ heap = NoHeap
    /\ trace = NoTrace(<<>>) /\ ret = "none" /\ layer = "none" /\ ret3d = "none"
    /\ trip = "none"

NirIdle ==
    /\ npc = "idle" /\ shader = "none" /\ nargs = "none" /\ nidx = 0 /\ progress = FALSE

LnIdle ==
    /\ lpc = "idle" /\ producer = "none" /\ consumer = "none" /\ lk = "none" /\ lin = "none"

AioIdle ==
    /\ apc = "idle" /\ io_shader = "none" /\ io = "none"

LinkIdle == LnIdle /\ AioIdle

(* A call of util_is_format_compatible on two descriptions of the table. *)
CompatCall ==
    /\ cpc = "call"
    /\ compatible' = util_is_format_compatible(src_desc, dst_desc)
    /\ cpc' = "done"
    /\ UNCHANGED <<src_desc, dst_desc, qryVars>>
    /\ UNCHANGED <<trVars, nirVars, linkVars>>

InitCompat ==
    /\ cpc = "call"
    /\ src_desc \in FormatTable
    /\ dst_desc \in FormatTable
    /\ compatible = FALSE
    /\ QryIdle
    /\ TrIdle
    /\ NirIdle
    /\ LinkIdle

NextCompat == CompatCall

SpecCompat == InitCompat /\ [][NextCompat]_vars

(* A format of 4 x 4 blocks, which has no depth or stencil function, and the
   depth/stencil formats it is paired with. *)
BlockFormats == { "DXT1_RGB" }

ZsFormats == { "Z24_UNORM_S8_UINT", "Z24X8_UNORM", "S8_UINT" }

ZsUnpack == { "unpack_z_float", "unpack_s_8uint" }

ZsPack == { "pack_z_float", "pack_s_8uint" }

(* The calls of util_format_translate and util_format_translate_3d: every pair
   of formats with every capability table on the full rectangle, every pair
   with every rectangle, and every pair with every depth. *)
TranslateInputs ==
    { [kind |-> "2d", sf |-> sf, df |-> df, u |-> u, p |-> p, r |-> FullRect,
       dx |-> 0, dy |-> 0, depth |-> 1] :
        sf \in TranslateFormats, df \in TranslateFormats,
        u \in UnpackChoices, p \in PackChoices }
    \cup
    { [kind |-> "2d", sf |-> sf, df |-> df, u |-> AllUnpack, p |-> AllPack, r |-> r,
       dx |-> IF o THEN 0 ELSE r.x, dy |-> IF o THEN 0 ELSE r.y, depth |-> 1] :
        sf \in TranslateFormats, df \in TranslateFormats, r \in Rects, o \in BOOLEAN }
    \cup
    { [kind |-> "3d", sf |-> sf, df |-> df, u |-> AllUnpack, p |-> AllPack, r |-> FullRect,
       dx |-> 0, dy |-> 0, depth |-> n] :
        sf \in TranslateFormats, df \in TranslateFormats, n \in 1..MaxDepth }
    \cup
    { [kind |-> "2d", sf |-> pr[1], df |-> pr[2],
       u |-> IF pr[1] \in BlockFormats THEN AllUnpack \ ZsUnpack ELSE AllUnpack,
       p |-> IF pr[2] \in BlockFormats THEN AllPack \ ZsPack ELSE AllPack,
       r |-> FullRect, dx |-> 0, dy |-> 0, depth |-> 1] :
        pr \in (BlockFormats \X ZsFormats) \cup (ZsFormats \X BlockFormats) }

InitTranslate ==
    /\ \E in \in TranslateInputs :
          /\ call = Call(in.kind, in.df, in.dx, in.dy, in.sf, in.r, in.depth)
          /\ unpack = in.u
          /\ pack = in.p
          /\ src = SrcMemory(in.sf)
          /\ dst = DstMemory(in.df)
          /\ trace = NoTrace(DstMemory(in.df))
          /\ trip = [n |-> 1, orig |-> SrcMemory(in.sf)]
          /\ pc = IF in.kind = "3d" THEN "translate_3d" ELSE "translate"
    /\ loc = NoLocals
    /\ heap = NoHeap
    /\ ret = "none"
    /\ ret3d = "none"
    /\ layer = [z |-> 0, dst_layer |-> 0, src_layer |-> 0]
    /\ FmtIdle
    /\ NirIdle
    /\ LinkIdle

NextTranslate ==
    \/ TranslateCompatible
    \/ TranslateZS
    \/ ZsMallocZ
    \/ ZsMallocS
    \/ ZsRow
    \/ ZsFree
    \/ Translate8unorm
    \/ TranslateSint
    \/ TranslateUint
    \/ TranslateFloat
    \/ Malloc
    \/ LoopBatch
    \/ LoopExit
    \/ Translate3dLoop
    \/ Translate3dReturn
    \/ TranslateBack

SpecTranslate == InitTranslate /\ [][NextTranslate]_vars

InitRemove ==
    /\ \E vs \in VarLists :
          /\ shader = [vars |-> vs]
          /\ \E m \in {nir_var_shader_in, nir_var_shader_out},
                used \in UsedChoices, usedp \in UsedPatchChoices :
                nargs = [mode |-> m, used_by_other_stage |-> used,
                         used_by_other_stage_patches |-> usedp, before |-> vs]
    /\ nidx = 1
    /\ progress = FALSE
    /\ npc = "loop"
    /\ FmtIdle
    /\ TrIdle
    /\ LinkIdle

NextRemove == RemoveVisit \/ RemoveReturn

SpecRemove == InitRemove /\ [][NextRemove]_vars

(***************************************************************************)
(* Properties of util_is_format_compatible (SpecCompat)                    *)
(***************************************************************************)
(* The conditions without the test that the two swizzles agree. *)
CompatibleWithoutSwizzleTest(s, d) ==
    \/ s.format = d.format
    \/ /\ s.layout = UTIL_FORMAT_LAYOUT_PLAIN
       /\ d.layout = UTIL_FORMAT_LAYOUT_PLAIN
       /\ s.block.bits = d.block.bits
       /\ s.nr_channels = d.nr_channels
       /\ s.colorspace = d.colorspace
       /\ \A chan \in 0..3 : s.channel[chan].size = d.channel[chan].size
       /\ \A chan \in 0..3 :
             d.swizzle[chan] < 4 =>
                /\ s.channel[d.swizzle[chan]].type = d.channel[d.swizzle[chan]].type
                /\ s.channel[d.swizzle[chan]].normalized
                       = d.channel[d.swizzle[chan]].normalized

(* The same conditions together with the swizzle test. *)
CompatibleWithSwizzleTest(s, d) ==
    \/ s.format = d.format
    \/ /\ CompatibleWithoutSwizzleTest(s, d)
       /\ \A chan \in 0..3 : d.swizzle[chan] < 4 => s.swizzle[chan] = d.swizzle[chan]

(* C1, as stated: the checker answers true exactly when the formats have the
   same id, or both are plain with equal block bits, channel count, colorspace
   and channel sizes, and every destination swizzle entry naming a real
   channel names a channel of the same type and normalized flag on both sides. *)
C1_AsStated ==
    cpc = "done" => (compatible <=> CompatibleWithoutSwizzleTest(src_desc, dst_desc))

(* C1, amended: the checker answers true exactly when those conditions hold
   and, in addition, wherever the destination swizzle names a real channel the
   source swizzle has the same entry. *)
C1_CompatibleExactly ==
    cpc = "done" => (compatible <=> CompatibleWithSwizzleTest(src_desc, dst_desc))

(* Two different formats found compatible: the destination drops the alpha
   channel of the source. *)
C1_Witness ==
    /\ cpc = "done"
    /\ compatible
    /\ src_desc.format = "R8G8B8A8_UNORM"
    /\ dst_desc.format = "R8G8B8X8_UNORM"

(***************************************************************************)
(* Properties of util_format_translate and util_format_translate_3d        *)
(* (SpecTranslate)                                                         *)
(***************************************************************************)
(* The blocks of the destination rectangle of the running slice hold the bytes m
   has in the rectangle at (mx, my). *)
DstRectHolds(m, mbase, mstride, mx, my) ==
    LET bs == util_format_get_blocksize(call.dst_format) IN
    \A i \in 0..(call.width - 1), j \in 0..(call.height - 1), k \in 0..(bs - 1) :
        dst[layer.dst_layer + (call.dst_y + j) * call.dst_stride + (call.dst_x + i) * bs + k]
            = m[mbase + (my + j) * mstride + (mx + i) * bs + k]

ExactlyOne(a, b) == (a /\ ~b) \/ (~a /\ b)

(* C2: a call on compatible formats returns success, has read no pack or unpack
   pointer, and has left in every block of the destination rectangle the bytes
   of the matching source block. *)
C2_CompatibleIsByteCopy ==
    (pc = "return" /\ util_is_format_compatible(SrcDesc, DstDesc)) =>
        /\ ret = "TRUE"
        /\ trace.consulted = {}
        /\ DstRectHolds(src, layer.src_layer, call.src_stride, call.src_x, call.src_y)

(* RGBA8 copied to RGBX8 with none of the capabilities of either format
   consulted: the X byte of the first block is the source's A byte. *)
C2_Witness ==
    /\ pc = "return"
    /\ ret = "TRUE"
    /\ trip.n = 1
    /\ call.src_format = "R8G8B8A8_UNORM"
    /\ call.dst_format = "R8G8B8X8_UNORM"
    /\ call.src_x = 0 /\ call.src_y = 0 /\ call.dst_x = 0 /\ call.dst_y = 0
    /\ dst[3] = src[3]
    /\ dst[3] # DstMemory(call.dst_format)[3]

(* C3, as stated: after A -> B on compatible formats and B -> A on the result,
   the second call has succeeded and reproduced the original bytes. *)
C3_AsStated ==
    (pc = "return" /\ trip.n = 2) =>
        /\ ret = "TRUE"
        /\ DstRectHolds(trip.orig, 0, call.dst_stride, call.dst_x, call.dst_y)

(* C3, amended: when A is compatible with B and B with A, the second call
   succeeds and reproduces the original bytes. *)
C3_RoundTripMutual ==
    (/\ pc = "return"
     /\ trip.n = 2
     /\ util_is_format_compatible(SrcDesc, DstDesc)
     /\ util_is_format_compatible(DstDesc, SrcDesc)) =>
        /\ ret = "TRUE"
        /\ DstRectHolds(trip.orig, 0, call.dst_stride, call.dst_x, call.dst_y)

(* A round trip between two different formats, each compatible with the other. *)
C3_Witness ==
    /\ pc = "return"
    /\ trip.n = 2
    /\ call.src_format = "R8G8B8A8_UINT"
    /\ call.dst_format = "R8G8B8A8_USCALED"
    /\ ret = "TRUE"
    /\ dst # DstMemory(call.dst_format)

(* The call is on formats that are not compatible, not depth/stencil, and of
   which exactly one is pure signed integer. *)
OneSidedSint ==
    /\ ~util_is_format_compatible(SrcDesc, DstDesc)
    /\ SrcDesc.colorspace # UTIL_FORMAT_COLORSPACE_ZS
    /\ DstDesc.colorspace # UTIL_FORMAT_COLORSPACE_ZS
    /\ ExactlyOne(util_format_is_pure_sint(call.src_format),
                  util_format_is_pure_sint(call.dst_format))

(* C4, as stated: such a call returns failure and converts nothing, whatever
   the capabilities. *)
C4_AsStated ==
    (pc = "return" /\ OneSidedSint) => (ret = "FALSE" /\ ~trace.packed)

(* C4, amended: such a call returns failure and converts nothing when neither
   format fits 8-bit unorm; when one does, the call takes the 8-bit unorm path
   and succeeds exactly when unpack_rgba_8unorm and pack_rgba_8unorm are both
   present and the row buffer was allocated. *)
C4_OneSidedSint ==
    (pc = "return" /\ OneSidedSint) =>
        IF ~util_format_fits_8unorm(SrcDesc) /\ ~util_format_fits_8unorm(DstDesc)
        THEN ret = "FALSE" /\ ~trace.packed /\ dst = trace.entry_dst
        ELSE /\ loc.path = "8unorm"
             /\ (ret = "TRUE") <=> (/\ "unpack_rgba_8unorm" \in unpack
                                    /\ "pack_rgba_8unorm" \in pack
                                    /\ ~trace.alloc_failed)

(* The signed branch refused a pair of which only the source is pure signed,
   with every capability present. *)
C4_Witness ==
    /\ pc = "return"
    /\ OneSidedSint
    /\ loc.path = "sint"
    /\ ret = "FALSE"
    /\ unpack = AllUnpack
    /\ pack = AllPack

(* C5: in the pure unsigned branch a call on formats of which exactly one is
   pure unsigned integer returns failure and converts nothing. *)
C5_UintNeedsBoth ==
    (/\ pc = "return"
     /\ loc.path = "uint"
     /\ ExactlyOne(util_format_is_pure_uint(call.src_format),
                   util_format_is_pure_uint(call.dst_format))) =>
        (ret = "FALSE" /\ ~trace.packed)

(* C6: no path calls through an absent pack or unpack pointer. *)
C6_NoNullCall == ~trace.null_call

(* C7: a call in which an allocation of a scratch buffer failed returns
   failure. *)
C7_AllocFailureFails == (pc = "return" /\ trace.alloc_failed) => ret = "FALSE"

(* C8, as stated: a failing util_format_translate or util_format_translate_3d
   has written no byte of the destination. *)
C8_AsStated ==
    /\ (pc = "return" /\ ret = "FALSE") => dst = trace.entry_dst
    /\ (pc = "done" /\ ret3d = "FALSE") => dst = DstMemory(call.dst_format)

(* C8, amended: a failing util_format_translate has written no byte of the
   destination; a failing util_format_translate_3d has written no byte of the
   slice that failed or of a later one (the slices before it are written). *)
C8_FailureWritesNothing ==
    /\ (pc = "return" /\ ret = "FALSE") => dst = trace.entry_dst
    /\ (pc = "done" /\ ret3d = "FALSE") =>
          \A a \in DOMAIN dst :
              a >= layer.dst_layer => dst[a] = DstMemory(call.dst_format)[a]

(* util_format_translate_3d failed on a slice after the first, whose call wrote
   nothing, and the first slice is written. *)
C8_Witness ==
    /\ pc = "done"
    /\ ret3d = "FALSE"
    /\ layer.z >= 1
    /\ dst = trace.entry_dst
    /\ dst # DstMemory(call.dst_format)

(* C9: no scratch buffer is used after its release or released twice, and at
   every return of util_format_translate no scratch buffer is outstanding. *)
C9_ScratchReleased ==
    /\ ~trace.heap_error
    /\ pc = "return" => \A b \in DOMAIN heap : heap[b] # "live"

(* A return after two scratch buffers were acquired and released. *)
C9_Witness ==
    /\ pc = "return"
    /\ heap.tmp_z = "freed"
    /\ heap.tmp_s = "freed"
    /\ trace.packed

(***************************************************************************)
(* Properties of nir_remove_unused_io_vars (SpecRemove)                    *)
(***************************************************************************)
(* The slots the variable occupies, relative to the first patch slot for a
   patch variable. *)
SlotsOf(var) ==
    LET first == IF var.patch THEN var.location - VARYING_SLOT_PATCH0 ELSE var.location
    IN  IF var.location < 0 THEN {} ELSE first..(first + var.slots - 1)

(* The mask the variable is tested against: the entry of its first component. *)
UsedMaskOf(var) ==
    IF var.patch THEN nargs.used_by_other_stage_patches[var.location_frac]
    ELSE nargs.used_by_other_stage[var.location_frac]

ShouldDemote(var) ==
    /\ var.mode = nargs.mode
    /\ ~(0 <= var.location /\ var.location < VARYING_SLOT_VAR0)
    /\ ~var.always_active_io
    /\ ~var.explicit_xfb_buffer
    /\ SlotsOf(var) \cap UsedMaskOf(var) = {}

(* C10: the pass demotes (mode to temporary, location to 0) exactly the
   variables of the given mode that are not in a built-in slot, not always
   active, without explicit transform-feedback buffer and with no slot set in
   the used mask; it leaves the others as they were, keeps the list of
   variables, and reports progress exactly when it demoted one. *)
C10_RemoveUnused ==
    npc = "done" =>
        /\ Len(shader.vars) = Len(nargs.before)
        /\ \A i \in 1..Len(nargs.before) :
              LET var == nargs.before[i] IN
              shader.vars[i] = IF ShouldDemote(var)
                               THEN [var EXCEPT !.mode = nir_var_shader_temp, !.location = 0]
                               ELSE var
        /\ progress <=> \E i \in 1..Len(nargs.before) : ShouldDemote(nargs.before[i])

(* A pass over two variables that demoted one and kept the other, which is
   used by the other stage. *)
C10_Witness ==
    /\ npc = "done"
    /\ progress
    /\ Len(shader.vars) = 2
    /\ \E i, j \in 1..2 :
          /\ nargs.before[i].location >= VARYING_SLOT_VAR0
          /\ shader.vars[i].mode = nir_var_shader_temp
          /\ shader.vars[i].location = 0
          /\ nargs.before[j].mode = nargs.mode
          /\ shader.vars[j] = nargs.before[j]

(***************************************************************************)
(* nir_remove_unused_varyings                                              *)
(* A shader is its stage, the list of its variables and the set of the     *)
(* (indices of the) variables its body loads.                              *)
(***************************************************************************)
MESA_SHADER_VERTEX == "vertex"
MESA_SHADER_TESS_CTRL == "tess_ctrl"
MESA_SHADER_TESS_EVAL == "tess_eval"
MESA_SHADER_FRAGMENT == "fragment"

get_num_components(var) == IF var.is_struct THEN 4 ELSE var.vector_elements

NoMasks == [c \in 0..3 |-> {}]

(* for (i = 0; i < get_num_components(var); i++)
      masks[var->data.location_frac + i] |= get_variable_io_mask(var, stage); *)
AddVarMask(masks, var) ==
    [c \in 0..3 |->
        IF var.location_frac <= c /\ c < var.location_frac + get_num_components(var)
        THEN masks[c] \cup get_variable_io_mask(var)
        ELSE masks[c]]

(* The loop over the variables vs[i..] of the given mode that are patch (or are not). *)
RECURSIVE AddVarMasks(_, _, _, _, _)
AddVarMasks(masks, vs, mode, patch, i) ==
    IF i > Len(vs) THEN masks
    ELSE AddVarMasks(IF vs[i].mode = mode /\ vs[i].patch = patch
                     THEN AddVarMask(masks, vs[i]) ELSE masks,
                     vs, mode, patch, i + 1)

(* The variables of the shader its body loads through load_deref, in list order. *)
LoadedVars(sh) ==
    LET F[i \in 0..Len(sh.vars)] ==
            IF i = 0 THEN <<>>
            ELSE IF i \in sh.loads THEN Append(F[i - 1], sh.vars[i]) ELSE F[i - 1]
    IN  F[Len(sh.vars)]

(* nir_remove_unused_io_vars run to its end on a list of variables. *)
RemoveUnusedIoVars(vs, mode, used, used_patches) ==
    [i \in 1..Len(vs) |-> RemoveVisitVar(vs[i], mode, used, used_patches)]

(* The two loops filling written[] and patches_written[]. *)
RvWritten ==
    /\ lpc = "rv_written"
    /\ lk' = [lk EXCEPT !.written = AddVarMasks(NoMasks, producer.vars, nir_var_shader_out, FALSE, 1),
                        !.patches_written = AddVarMasks(NoMasks, producer.vars, nir_var_shader_out, TRUE, 1)]
    /\ lpc' = "rv_read"
    /\ UNCHANGED <<producer, consumer, lin>>
    /\ UNCHANGED <<fmtVars, trVars, nirVars, aioVars>>

(* The two loops filling read[] and patches_read[]. *)
RvRead ==
    /\ lpc = "rv_read"
    /\ lk' = [lk EXCEPT !.read = AddVarMasks(NoMasks, consumer.vars, nir_var_shader_in, FALSE, 1),
                        !.patches_read = AddVarMasks(NoMasks, consumer.vars, nir_var_shader_in, TRUE, 1)]
    /\ lpc' = "rv_tcs"
    /\ UNCHANGED <<producer, consumer, lin>>
    /\ UNCHANGED <<fmtVars, trVars, nirVars, aioVars>>

RvTcs_NoOutputReads ==
    /\ lpc = "rv_tcs"
    /\ lpc' = "rv_remove_out"
    /\ UNCHANGED <<producer, consumer, lk, lin>>
    /\ UNCHANGED <<fmtVars, trVars, nirVars, aioVars>>

(* if (producer->info.stage == MESA_SHADER_TESS_CTRL) tcs_add_output_reads(...) *)
RvTcs ==
    /\ lpc = "rv_tcs"
    /\ lk' = IF producer.stage = MESA_SHADER_TESS_CTRL
             THEN [lk EXCEPT !.read = AddVarMasks(lk.read, LoadedVars(producer), nir_var_shader_out, FALSE, 1),
                             !.patches_read =
                                 AddVarMasks(lk.patches_read, LoadedVars(producer),
                                             nir_var_shader_out, TRUE, 1)]
             ELSE lk
    /\ lpc' = "rv_remove_out"
    /\ UNCHANGED <<producer, consumer, lin>>
    /\ UNCHANGED <<fmtVars, trVars, nirVars, aioVars>>

(* progress = nir_remove_unused_io_vars(producer, nir_var_shader_out, read, patches_read) *)
RvRemoveOutputs ==
    /\ lpc = "rv_remove_out"
    /\ LET after == RemoveUnusedIoVars(producer.vars, nir_var_shader_out,
                                       lk.read, lk.patches_read)
       IN  /\ producer' = [producer EXCEPT !.vars = after]
           /\ lk' = [lk EXCEPT !.progress = (after # producer.vars)]
    /\ lpc' = "rv_remove_in"
    /\ UNCHANGED <<consumer, lin>>
    /\ UNCHANGED <<fmtVars, trVars, nirVars, aioVars>>

(* progress = nir_remove_unused_io_vars(consumer, nir_var_shader_in, written,
                                        patches_written) || progress; return progress; *)
RvRemoveInputs ==
    /\ lpc = "rv_remove_in"
    /\ LET after == RemoveUnusedIoVars(consumer.vars, nir_var_shader_in,
                                       lk.written, lk.patches_written)
       IN  /\ consumer' = [consumer EXCEPT !.vars = after]
           /\ lk' = [lk EXCEPT !.progress = ((after # consumer.vars) \/ lk.progress)]
    /\ lpc' = "rv_done"
    /\ UNCHANGED <<producer, lin>>
    /\ UNCHANGED <<fmtVars, trVars, nirVars, aioVars>>

(* The variables of the linked pair: those of nir_remove_unused_io_vars with the
   shape of their type (get_num_components looks at it). *)
LinkVar(mode, patch, location, location_frac, vector_elements, is_struct, always_active_io) ==
    [mode |-> mode, patch |-> patch, location |-> location, location_frac |-> location_frac,
     slots |-> 1, always_active_io |-> always_active_io, explicit_xfb_buffer |-> FALSE,
     vector_elements |-> vector_elements, is_struct |-> is_struct]

(* Outputs of the producer: a vec4, a scalar in a later component, a struct, a patch
   scalar, an unassigned scalar, a built-in, an always-active scalar; and one input. *)
ProducerShapes ==
    { LinkVar(nir_var_shader_out, FALSE, VARYING_SLOT_VAR0, 0, 4, FALSE, FALSE),
      LinkVar(nir_var_shader_out, FALSE, VARYING_SLOT_VAR0 + 1, 1, 1, FALSE, FALSE),
      LinkVar(nir_var_shader_out, TRUE, VARYING_SLOT_PATCH0, 0, 1, FALSE, FALSE),
      LinkVar(nir_var_shader_out, FALSE, -1, 0, 1, FALSE, FALSE),
      LinkVar(nir_var_shader_out, FALSE, 0, 0, 4, FALSE, FALSE),
      LinkVar(nir_var_shader_out, FALSE, VARYING_SLOT_VAR0 + 1, 0, 1, TRUE, TRUE),
      LinkVar(nir_var_shader_in, FALSE, VARYING_SLOT_VAR0, 0, 4, FALSE, FALSE) }

ConsumerShapes ==
    { LinkVar(nir_var_shader_in, FALSE, VARYING_SLOT_VAR0, 0, 4, FALSE, FALSE),
      LinkVar(nir_var_shader_in, FALSE, VARYING_SLOT_VAR0, 2, 1, FALSE, FALSE),
      LinkVar(nir_var_shader_in, TRUE, VARYING_SLOT_PATCH0, 0, 1, FALSE, FALSE),
      LinkVar(nir_var_shader_in, FALSE, VARYING_SLOT_VAR0 + 1, 1, 1, FALSE, FALSE) }

SeqsUpTo(S, lo, hi) == UNION { [1..n -> S] : n \in lo..hi }

(* What the body of a shader loads: nothing, its first variable, all of them. *)
LoadChoices(vs) == { {}, {1}, 1..Len(vs) }

NoLink == [read |-> NoMasks, written |-> NoMasks, patches_read |-> NoMasks,
           patches_written |-> NoMasks, progress |-> FALSE, run |-> 1]

(* nir_remove_unused_varyings is called again on the pair it has returned from. *)
RvAgain ==
    /\ lpc = "rv_done"
    /\ lk.run < MaxRuns
    /\ lk' = [NoLink EXCEPT !.run = lk.run + 1]
    /\ lin' = [producer |-> producer, consumer |-> consumer]
    /\ lpc' = "rv_written"
    /\ UNCHANGED <<producer, consumer>>
    /\ UNCHANGED <<fmtVars, trVars, nirVars, aioVars>>

InitVaryings ==
    /\ FmtIdle /\ TrIdle /\ NirIdle /\ AioIdle
    /\ lpc = "rv_written"
    /\ \E stage \in {MESA_SHADER_VERTEX, MESA_SHADER_TESS_CTRL} :
       \E vs \in SeqsUpTo(ProducerShapes, 1, MaxVars) :
       \E loads \in (IF stage = MESA_SHADER_TESS_CTRL THEN LoadChoices(vs) ELSE {{}}) :
           producer = [stage |-> stage, vars |-> vs, loads |-> loads]
    /\ \E vs \in SeqsUpTo(ConsumerShapes, 0, MaxVars) :
           consumer = [stage |-> IF producer.stage = MESA_SHADER_TESS_CTRL
                                 THEN MESA_SHADER_TESS_EVAL ELSE MESA_SHADER_FRAGMENT,
                       vars |-> vs, loads |-> {}]
    /\ lk = NoLink
    /\ lin = [producer |-> producer, consumer |-> consumer]

NextVaryings ==
    \/ RvWritten
    \/ RvRead
    \/ RvTcs
    \/ RvRemoveOutputs
    \/ RvRemoveInputs
    \/ RvAgain

SpecVaryings == InitVaryings /\ [][NextVaryings]_vars

(***************************************************************************)
(* Claims about nir_remove_unused_varyings                                 *)
(***************************************************************************)
(* The components a variable occupies in each of its slots. *)
ComponentsOf(var) == var.location_frac .. (var.location_frac + get_num_components(var) - 1)

(* The consumer input reads a (slot, component) the producer output occupies. *)
ReadsFrom(vin, vout) ==
    /\ vin.mode = nir_var_shader_in /\ vout.mode = nir_var_shader_out
    /\ vin.patch = vout.patch
    /\ get_variable_io_mask(vin) \cap get_variable_io_mask(vout) # {}
    /\ ComponentsOf(vin) \cap ComponentsOf(vout) # {}

StillOutput(i) == producer.vars[i].mode = nir_var_shader_out

(* C11: after nir_remove_unused_varyings every producer output that has an occupied
   (slot, component) read by some consumer input is still an output of its stage. *)
C11_ReadOutputSurvives ==
    lpc = "rv_done" =>
        \A i \in 1..Len(lin.producer.vars) :
            (\E j \in 1..Len(lin.consumer.vars) :
                ReadsFrom(lin.consumer.vars[j], lin.producer.vars[i]))
            => StillOutput(i)

(* The output the producer's body loads, for a tessellation control producer. *)
LoadedOutput(i) ==
    /\ lin.producer.stage = MESA_SHADER_TESS_CTRL
    /\ i \in lin.producer.loads
    /\ lin.producer.vars[i].mode = nir_var_shader_out

MAX_VARYING == 32
MAX_VARYINGS_INCL_PATCH == 64

INTERP_MODE_NONE == 0
INTERP_MODE_SMOOTH == 1
INTERP_MODE_FLAT == 2

INTERPOLATE_LOC_SAMPLE == 0
INTERPOLATE_LOC_CENTROID == 1
INTERPOLATE_LOC_CENTER == 2

(* A glsl_type: its base type, the number of elements of the vector (1 for a scalar)
   and the length of the array (0 when it is not an array).  The type of a per-vertex
   variable is kept without its outer per-vertex array. *)
GlslType(base, vector_elements, length) ==
    [base |-> base, vector_elements |-> vector_elements, length |-> length]

glsl_without_array(type) == [type EXCEPT !.length = 0]
glsl_type_is_array(type) == type.length > 0
glsl_type_is_64bit(type) == type.base = "double"
glsl_type_is_32bit(type) == type.base \in {"float", "int", "uint"}
glsl_type_is_integer(type) == type.base \in {"int", "uint"}
glsl_type_is_scalar(type) == type.length = 0 /\ type.vector_elements = 1
glsl_type_is_vector_or_scalar(type) == type.length = 0
glsl_get_vector_elements(type) == type.vector_elements
glsl_type_is_dual_slot(type) == glsl_type_is_64bit(type) /\ type.vector_elements > 2
glsl_count_attribute_slots(type) ==
    (IF type.length > 0 THEN type.length ELSE 1)
        * (IF glsl_type_is_dual_slot(glsl_without_array(type)) THEN 2 ELSE 1)

get_interp_type(var, type, default_to_smooth_interp) ==
    IF glsl_type_is_integer(type) THEN INTERP_MODE_FLAT
    ELSE IF var.interpolation # INTERP_MODE_NONE THEN var.interpolation
    ELSE IF default_to_smooth_interp THEN INTERP_MODE_SMOOTH
    ELSE INTERP_MODE_NONE

get_interp_loc(var) ==
    IF var.sample THEN INTERPOLATE_LOC_SAMPLE
    ELSE IF var.centroid THEN INTERPOLATE_LOC_CENTROID
    ELSE INTERPOLATE_LOC_CENTER

is_packing_supported_for_type(type) == glsl_type_is_scalar(type) /\ glsl_type_is_32bit(type)

(* The bits of ((1 << n) - 1) << shift kept by a uint8_t. *)
LowBits8(n, shift) == {b \in 0..7 : shift <= b /\ b < shift + n}

NoComps == [comps |-> {}, interp_type |-> 0, interp_loc |-> 0, is_32bit |-> FALSE]

NoAssignedComps == [s \in 0..(MAX_VARYINGS_INCL_PATCH - 1) |-> NoComps]

(* Only remap things that aren't built-ins. *)
InRemapRange(var) ==
    /\ var.location >= VARYING_SLOT_VAR0
    /\ var.location - VARYING_SLOT_VAR0 < MAX_VARYINGS_INCL_PATCH

(* The loop over the slots of one variable that cannot be packed. *)
MarkUnmoveableVar(comps, var, default_to_smooth_interp) ==
    LET type == var.type
        location == var.location - VARYING_SLOT_VAR0
        elements == IF glsl_type_is_vector_or_scalar(glsl_without_array(type))
                    THEN glsl_get_vector_elements(glsl_without_array(type)) ELSE 4
        dual_slot == glsl_type_is_dual_slot(glsl_without_array(type))
        slots == glsl_count_attribute_slots(type)
        dmul == IF glsl_type_is_64bit(glsl_without_array(type)) THEN 2 ELSE 1
        num_comps == 4 - var.location_frac
        comps_slot2 == (elements * dmul) - num_comps
        bits(i) == IF dual_slot
                   THEN IF i % 2 = 1 THEN LowBits8(comps_slot2, 0)
                        ELSE LowBits8(num_comps, var.location_frac)
                   ELSE LowBits8(elements * dmul, var.location_frac)
    IN  [s \in 0..(MAX_VARYINGS_INCL_PATCH - 1) |->
            IF location <= s /\ s < location + slots
            THEN [comps |-> comps[s].comps \cup bits(s - location),
                  interp_type |-> get_interp_type(var, type, default_to_smooth_interp),
                  interp_loc |-> get_interp_loc(var),
                  is_32bit |-> glsl_type_is_32bit(glsl_without_array(type))]
            ELSE comps[s]]

RECURSIVE get_unmoveable_components_masks(_, _, _, _, _)
get_unmoveable_components_masks(vs, mode, comps, default_to_smooth_interp, i) ==
    IF i > Len(vs) THEN comps
    ELSE LET var == vs[i]
             marked == IF var.mode # mode \/ ~InRemapRange(var) THEN comps
                       ELSE IF is_packing_supported_for_type(var.type) THEN comps
                       ELSE MarkUnmoveableVar(comps, var, default_to_smooth_interp)
         IN  get_unmoveable_components_masks(vs, mode, marked, default_to_smooth_interp, i + 1)

BITFIELD64_RANGE(b, count) == {x \in b..(b + count - 1) : 0 <= x /\ x < 64}

mark_all_used_slots_Nothing(var, slots_used, slots_used_mask, num_slots) == slots_used

(* mark_all_used_slots: the new value of slots_used[var->data.patch ? 1 : 0]. *)
mark_all_used_slots(var, slots_used, slots_used_mask, num_slots) ==
    LET loc_offset == IF var.patch THEN VARYING_SLOT_PATCH0 ELSE 0
    IN  slots_used \cup
            (slots_used_mask \cap BITFIELD64_RANGE(var.location - loc_offset, num_slots))

(* mark_used_slot: the new value of slots_used[var->data.patch ? 1 : 0]. *)
mark_used_slot(var, slots_used, offset) ==
    LET loc_offset == IF var.patch THEN VARYING_SLOT_PATCH0 ELSE 0
    IN  slots_used \cup BITFIELD64_RANGE(var.location - loc_offset + offset, 1)

(* struct varying_loc remap[MAX_VARYINGS_INCL_PATCH][4], kept as the entries that
   were assigned; every other entry is zero. *)
NoRemap == << >>

RemapAt(remap, location, location_frac) ==
    IF <<location, location_frac>> \in DOMAIN remap THEN remap[<<location, location_frac>>]
    ELSE [component |-> 0, location |-> 0]

RemapSet(remap, location, location_frac, new_loc) ==
    [k \in DOMAIN remap \cup {<<location, location_frac>>} |->
        IF k = <<location, location_frac>> THEN new_loc ELSE remap[k]]

(* The body of the loop of remap_slots_and_components for one variable: st holds the
   variables seen so far and slots_used_tmp, out_slots_read_tmp. *)
RemapVar_SkipsConsumer(st, var, mode, remap, m) ==
    IF mode = nir_var_shader_in
    THEN [st EXCEPT !.vars = Append(st.vars, var)]
    ELSE LET new_loc == RemapAt(remap, var.location - VARYING_SLOT_VAR0, var.location_frac)
             moved == IF new_loc.location # 0
                      THEN [var EXCEPT !.location = new_loc.location,
                                       !.location_frac = new_loc.component]
                      ELSE var
         IN  IF var.mode # mode \/ ~InRemapRange(var)
             THEN [st EXCEPT !.vars = Append(st.vars, var)]
             ELSE [st EXCEPT !.vars = Append(st.vars, moved)]

RemapVar(st, var, mode, remap, m) ==
    IF var.mode # mode \/ ~InRemapRange(var) THEN [st EXCEPT !.vars = Append(st.vars, var)]
    ELSE
    LET num_slots == glsl_count_attribute_slots(var.type)
        location == var.location - VARYING_SLOT_VAR0
        new_loc == RemapAt(remap, location, var.location_frac)
        loc_offset == IF var.patch THEN VARYING_SLOT_PATCH0 ELSE 0
        used == IF var.patch THEN m.p_slots_used ELSE m.slots_used
        outs_used == IF var.patch THEN m.p_out_slots_read ELSE m.out_slots_read
        slots == BITFIELD64_RANGE(var.location - loc_offset, num_slots)
        used_across_stages == slots \cap used # {}
        outputs_read == slots \cap outs_used # {}
        moved == IF new_loc.location # 0
                 THEN [var EXCEPT !.location = new_loc.location,
                                  !.location_frac = new_loc.component]
                 ELSE var
        p == IF var.patch THEN 2 ELSE 1
        RECURSIVE MarkEach(_, _)
        MarkEach(mask, i) ==
            IF i >= num_slots THEN mask ELSE MarkEach(mark_used_slot(moved, mask, i), i + 1)
        used_tmp == IF ~used_across_stages THEN st.slots_used_tmp[p]
                    ELSE IF var.always_active_io
                    THEN mark_all_used_slots(moved, st.slots_used_tmp[p], used, num_slots)
                    ELSE MarkEach(st.slots_used_tmp[p], 0)
        read_tmp == IF ~outputs_read THEN st.out_slots_read_tmp[p]
                    ELSE IF var.always_active_io
                    THEN mark_all_used_slots(moved, st.out_slots_read_tmp[p], outs_used,
                                             num_slots)
                    ELSE MarkEach(st.out_slots_read_tmp[p], 0)
    IN  [vars |-> Append(st.vars, moved),
         slots_used_tmp |-> [st.slots_used_tmp EXCEPT ![p] = used_tmp],
         out_slots_read_tmp |-> [st.out_slots_read_tmp EXCEPT ![p] = read_tmp]]

(* remap_slots_and_components: the variables of the shader and the four masks after
   it.  m holds *slots_used, *out_slots_read, *p_slots_used, *p_out_slots_read. *)
remap_slots_and_components(vs, mode, remap, m) ==
    LET RECURSIVE Loop(_, _)
        Loop(st, i) == IF i > Len(vs) THEN st
                       ELSE Loop(RemapVar(st, vs[i], mode, remap, m), i + 1)
        st == Loop([vars |-> <<>>,
                    slots_used_tmp |->
                        <<m.slots_used \cap BITFIELD64_RANGE(0, VARYING_SLOT_VAR0), {}>>,
                    out_slots_read_tmp |-> <<{}, {}>>], 1)
    IN  [vars |-> st.vars,
         slots_used |-> st.slots_used_tmp[1],
         out_slots_read |-> st.out_slots_read_tmp[1],
         p_slots_used |-> {b \in st.slots_used_tmp[2] : b < 32},
         p_out_slots_read |-> {b \in st.out_slots_read_tmp[2] : b < 32}]

(* store_varying_info_idx and num_of_comps_to_pack after the loop over the producer's
   outputs; the index array is kept as its non-zero entries. *)
RECURSIVE StoreVaryingInfoIdx(_, _, _, _)
StoreVaryingInfoIdx(vs, idx, num, i) ==
    IF i > Len(vs) THEN [idx |-> idx, num |-> num]
    ELSE LET var == vs[i]
         IN  IF /\ var.mode = nir_var_shader_out
                /\ InRemapRange(var)
                /\ ~var.always_active_io
                /\ is_packing_supported_for_type(var.type)
             THEN StoreVaryingInfoIdx(vs,
                      RemapSet(idx, var.location - VARYING_SLOT_VAR0, var.location_frac,
                               num + 1),
                      num + 1, i + 1)
             ELSE StoreVaryingInfoIdx(vs, idx, num, i + 1)

IdxAt(idx, location, location_frac) ==
    IF <<location, location_frac>> \in DOMAIN idx THEN idx[<<location, location_frac>>] ELSE 0

(* An entry of the array rzalloc_array returns. *)
NoComponent ==
    [var |-> "NULL", interp_type |-> 0, interp_loc |-> 0, is_32bit |-> FALSE,
     is_patch |-> FALSE, is_intra_stage_only |-> FALSE, initialised |-> FALSE]

VaryingComponent(var, default_to_smooth_interp, is_intra_stage_only) ==
    [var |-> var,
     interp_type |-> get_interp_type(var, var.type, default_to_smooth_interp),
     interp_loc |-> get_interp_loc(var),
     is_32bit |-> glsl_type_is_32bit(var.type),
     is_patch |-> var.patch,
     is_intra_stage_only |-> is_intra_stage_only,
     initialised |-> TRUE]

(* The walk over the loads of the consumer's inputs. *)
RECURSIVE GatherConsumerLoads(_, _, _, _, _)
GatherConsumerLoads(loaded, idx, info, default_to_smooth_interp, i) ==
    IF i > Len(loaded) THEN info
    ELSE LET in_var == loaded[i]
             var_info_idx == IdxAt(idx, in_var.location - VARYING_SLOT_VAR0,
                                   in_var.location_frac)
         IN  IF \/ in_var.mode # nir_var_shader_in
                \/ in_var.location < VARYING_SLOT_VAR0
                \/ in_var.location - VARYING_SLOT_VAR0 >= MAX_VARYINGS_INCL_PATCH
                \/ var_info_idx = 0
                \/ info[var_info_idx].initialised
             THEN GatherConsumerLoads(loaded, idx, info, default_to_smooth_interp, i + 1)
             ELSE GatherConsumerLoads(loaded, idx,
                      [info EXCEPT ![var_info_idx] =
                          VaryingComponent(in_var, default_to_smooth_interp, FALSE)],
                      default_to_smooth_interp, i + 1)

(* The walk over the loads of the outputs of a tessellation control producer: the
   array and the size, which is set to 0 when an output has no index. *)
RECURSIVE GatherProducerLoads(_, _, _, _, _, _)
GatherProducerLoads(loaded, idx, info, size, default_to_smooth_interp, i) ==
    IF i > Len(loaded) THEN [info |-> info, size |-> size]
    ELSE LET out_var == loaded[i]
             var_info_idx == IdxAt(idx, out_var.location - VARYING_SLOT_VAR0,
                                   out_var.location_frac)
         IN  IF \/ out_var.mode # nir_var_shader_out
                \/ out_var.location < VARYING_SLOT_VAR0
                \/ out_var.location - VARYING_SLOT_VAR0 >= MAX_VARYINGS_INCL_PATCH
             THEN GatherProducerLoads(loaded, idx, info, size, default_to_smooth_interp, i + 1)
             ELSE IF var_info_idx = 0 THEN [info |-> info, size |-> 0]
             ELSE IF info[var_info_idx].initialised
             THEN GatherProducerLoads(loaded, idx, info, size, default_to_smooth_interp, i + 1)
             ELSE GatherProducerLoads(loaded, idx,
                      [info EXCEPT ![var_info_idx] =
                          VaryingComponent(out_var, default_to_smooth_interp, TRUE)],
                      size, default_to_smooth_interp, i + 1)

(* gather_varying_component_info: the first varying_comp_info_size entries of the
   array it fills. *)
gather_varying_component_info(prod, cons, default_to_smooth_interp) ==
    LET store == StoreVaryingInfoIdx(prod.vars, << >>, 0, 1)
        zeroed == [k \in 1..store.num |-> NoComponent]
        after_in == GatherConsumerLoads(LoadedVars(cons), store.idx, zeroed,
                                        default_to_smooth_interp, 1)
        after_out == IF prod.stage = MESA_SHADER_TESS_CTRL
                     THEN GatherProducerLoads(LoadedVars(prod), store.idx, after_in,
                                              store.num, default_to_smooth_interp, 1)
                     ELSE [info |-> after_in, size |-> store.num]
        abandoned == \E k \in 1..after_out.size : ~after_out.info[k].initialised
    IN  IF abandoned THEN <<>> ELSE [k \in 1..after_out.size |-> after_out.info[k]]

cmp_varying_component(comp1, comp2) ==
    IF comp1.is_patch # comp2.is_patch THEN (IF comp1.is_patch THEN 1 ELSE -1)
    ELSE IF comp1.is_intra_stage_only # comp2.is_intra_stage_only
    THEN (IF comp1.is_intra_stage_only THEN 1 ELSE -1)
    ELSE IF comp1.interp_type # comp2.interp_type THEN comp1.interp_type - comp2.interp_type
    ELSE IF comp1.interp_loc # comp2.interp_loc THEN comp1.interp_loc - comp2.interp_loc
    ELSE comp1.var.location - comp2.var.location

(* What qsort may return: every arrangement of the array that is sorted by the
   comparison; elements that compare equal come in any order. *)
qsort(info) ==
    LET n == Len(info)
        perms == {f \in [1..n -> 1..n] : \A a, b \in 1..n : a # b => f[a] # f[b]}
    IN  { [k \in 1..n |-> info[f[k]]] : f \in
            {g \in perms : \A k \in 1..(n - 1) :
                cmp_varying_component(info[g[k]], info[g[k + 1]]) <= 0} }

(* assign_remap_locations from the slot tmp_cursor and the component tmp_comp on:
   assigned_comps, remap, *cursor and *comp after it. *)
RECURSIVE assign_remap_locations(_, _, _, _, _, _)
assign_remap_locations(remap, assigned_comps, info, tmp_cursor, tmp_comp, max_location) ==
    IF tmp_cursor >= max_location
    THEN [remap |-> remap, assigned_comps |-> assigned_comps,
          cursor |-> tmp_cursor, comp |-> tmp_comp]
    ELSE
    LET slot == assigned_comps[tmp_cursor]
        unset == {c \in tmp_comp..3 : c \notin slot.comps}
        next_comp == IF slot.comps = {} THEN tmp_comp
                     ELSE IF unset = {} THEN 4
                     ELSE CHOOSE c \in unset : \A d \in unset : c <= d
        location == info.var.location - VARYING_SLOT_VAR0
    IN  IF slot.comps # {} /\ (slot.interp_type # info.interp_type
                               \/ slot.interp_loc # info.interp_loc)
        THEN assign_remap_locations(remap, assigned_comps, info, tmp_cursor + 1, 0,
                                    max_location)
        ELSE IF slot.comps # {} /\ ~slot.is_32bit
        THEN assign_remap_locations(remap, assigned_comps, info, tmp_cursor + 1, 0,
                                    max_location)
        ELSE IF next_comp = 4
        THEN assign_remap_locations(remap, assigned_comps, info, tmp_cursor + 1, 0,
                                    max_location)
        ELSE [remap |-> RemapSet(remap, location, info.var.location_frac,
                                 [component |-> next_comp,
                                  location |-> tmp_cursor + VARYING_SLOT_VAR0]),
              assigned_comps |->
                  [assigned_comps EXCEPT ![tmp_cursor] =
                      [comps |-> slot.comps \cup {next_comp},
                       interp_type |-> info.interp_type,
                       interp_loc |-> info.interp_loc,
                       is_32bit |-> info.is_32bit]],
              cursor |-> tmp_cursor, comp |-> next_comp + 1]

(* get_unmoveable_components_masks(producer, nir_var_shader_out, ...) *)
CvUnmoveableOut ==
    /\ lpc = "cv_unmoveable_out"
    /\ lk' = [lk EXCEPT !.assigned_comps =
                 get_unmoveable_components_masks(producer.vars, nir_var_shader_out,
                     NoAssignedComps, lk.default_to_smooth_interp, 1)]
    /\ lpc' = "cv_unmoveable_in"
    /\ UNCHANGED <<producer, consumer, lin>>
    /\ UNCHANGED <<fmtVars, trVars, nirVars, aioVars>>

(* get_unmoveable_components_masks(consumer, nir_var_shader_in, ...) *)
CvUnmoveableIn ==
    /\ lpc = "cv_unmoveable_in"
    /\ lk' = [lk EXCEPT !.assigned_comps =
                 get_unmoveable_components_masks(consumer.vars, nir_var_shader_in,
                     lk.assigned_comps, lk.default_to_smooth_interp, 1)]
    /\ lpc' = "cv_gather"
    /\ UNCHANGED <<producer, consumer, lin>>
    /\ UNCHANGED <<fmtVars, trVars, nirVars, aioVars>>

(* compact_components: remap = {0}, gather_varying_component_info(...) *)
CvGather ==
    /\ lpc = "cv_gather"
    /\ lk' = [lk EXCEPT !.remap = NoRemap,
                        !.info = gather_varying_component_info(producer, consumer,
                                     lk.default_to_smooth_interp)]
    /\ lpc' = "cv_sort"
    /\ UNCHANGED <<producer, consumer, lin>>
    /\ UNCHANGED <<fmtVars, trVars, nirVars, aioVars>>

(* qsort(varying_comp_info, ...); cursor = 0; comp = 0 *)
CvSort ==
    /\ lpc = "cv_sort"
    /\ \E sorted \in qsort(lk.info) :
           lk' = [lk EXCEPT !.info = sorted, !.cursor = 0, !.comp = 0, !.i = 1]
    /\ lpc' = "cv_assign"
    /\ UNCHANGED <<producer, consumer, lin>>
    /\ UNCHANGED <<fmtVars, trVars, nirVars, aioVars>>

(* One iteration of the loop over the sorted components, for a patch component. *)
CvAssignPatch ==
    /\ lpc = "cv_assign"
    /\ lk.i <= Len(lk.info)
    /\ lk.info[lk.i].is_patch
    /\ LET reset == lk.cursor < MAX_VARYING
           r == assign_remap_locations(lk.remap, lk.assigned_comps, lk.info[lk.i],
                    IF reset THEN MAX_VARYING ELSE lk.cursor,
                    IF reset THEN 0 ELSE lk.comp, MAX_VARYINGS_INCL_PATCH)
       IN  lk' = [lk EXCEPT !.remap = r.remap, !.assigned_comps = r.assigned_comps,
                            !.cursor = r.cursor, !.comp = r.comp, !.i = lk.i + 1]
    /\ UNCHANGED <<lpc, producer, consumer, lin>>
    /\ UNCHANGED <<fmtVars, trVars, nirVars, aioVars>>

(* One iteration of the loop over the sorted components, for a component that is
   not a patch: a second scan from slot 0 when the first one reached MAX_VARYING. *)
CvAssign ==
    /\ lpc = "cv_assign"
    /\ lk.i <= Len(lk.info)
    /\ ~lk.info[lk.i].is_patch
    /\ LET r1 == assign_remap_locations(lk.remap, lk.assigned_comps, lk.info[lk.i],
                     lk.cursor, lk.comp, MAX_VARYING)
           r == IF r1.cursor = MAX_VARYING
                THEN assign_remap_locations(r1.remap, r1.assigned_comps, lk.info[lk.i],
                                            0, 0, MAX_VARYING)
                ELSE r1
       IN  lk' = [lk EXCEPT !.remap = r.remap, !.assigned_comps = r.assigned_comps,
                            !.cursor = r.cursor, !.comp = r.comp, !.i = lk.i + 1]
    /\ UNCHANGED <<lpc, producer, consumer, lin>>
    /\ UNCHANGED <<fmtVars, trVars, nirVars, aioVars>>

(* remap_slots_and_components(consumer, nir_var_shader_in, remap,
       &consumer->info.inputs_read, &zero, &consumer->info.patch_inputs_read, &zero32) *)
CvRemapConsumer ==
    /\ lpc = "cv_assign"
    /\ lk.i > Len(lk.info)
    /\ LET r == remap_slots_and_components(consumer.vars, nir_var_shader_in, lk.remap,
                    [slots_used |-> consumer.inputs_read, out_slots_read |-> {},
                     p_slots_used |-> consumer.patch_inputs_read, p_out_slots_read |-> {}])
       IN  consumer' = [consumer EXCEPT !.vars = r.vars,
                                        !.inputs_read = r.slots_used,
                                        !.patch_inputs_read = r.p_slots_used]
    /\ lpc' = "cv_remap_out"
    /\ UNCHANGED <<producer, lk, lin>>
    /\ UNCHANGED <<fmtVars, trVars, nirVars, aioVars>>

(* remap_slots_and_components(producer, nir_var_shader_out, remap,
       &producer->info.outputs_written, &producer->info.outputs_read,
       &producer->info.patch_outputs_written, &producer->info.patch_outputs_read) *)
CvRemapProducer ==
    /\ lpc = "cv_remap_out"
    /\ LET r == remap_slots_and_components(producer.vars, nir_var_shader_out, lk.remap,
                    [slots_used |-> producer.outputs_written,
                     out_slots_read |-> producer.outputs_read,
                     p_slots_used |-> producer.patch_outputs_written,
                     p_out_slots_read |-> producer.patch_outputs_read])
       IN  producer' = [producer EXCEPT !.vars = r.vars,
                                        !.outputs_written = r.slots_used,
                                        !.outputs_read = r.out_slots_read,
                                        !.patch_outputs_written = r.p_slots_used,
                                        !.patch_outputs_read = r.p_out_slots_read]
    /\ lpc' = "cv_done"
    /\ UNCHANGED <<consumer, lk, lin>>
    /\ UNCHANGED <<fmtVars, trVars, nirVars, aioVars>>

NoCompact(default_to_smooth_interp, run) ==
    [default_to_smooth_interp |-> default_to_smooth_interp, run |-> run,
     assigned_comps |-> NoAssignedComps, remap |-> NoRemap, info |-> <<>>,
     cursor |-> 0, comp |-> 0, i |-> 1]

(* nir_compact_varyings is called again on the pair it has compacted. *)
CvAgain ==
    /\ lpc = "cv_done"
    /\ lk.run < MaxRuns
    /\ lk' = NoCompact(lk.default_to_smooth_interp, lk.run + 1)
    /\ lin' = [producer |-> producer, consumer |-> consumer]
    /\ lpc' = "cv_unmoveable_out"
    /\ UNCHANGED <<producer, consumer>>
    /\ UNCHANGED <<fmtVars, trVars, nirVars, aioVars>>

(* A varying of the interface between the two stages: the output of the producer and
   the input of the consumer declared for it.  The two can differ in always_active_io
   (nir_link_xfb_varyings marks one input of a slot); intra is an output that only
   the producer reads and for which the consumer has no input. *)
Varying(patch, location, location_frac, type, interpolation, centroid, active, intra) ==
    [patch |-> patch, location |-> location, location_frac |-> location_frac, type |-> type,
     interpolation |-> interpolation, sample |-> FALSE, centroid |-> centroid,
     out_active |-> active[1], in_active |-> active[2], intra |-> intra]

CompactVar(v, mode) ==
    [mode |-> mode, patch |-> v.patch, location |-> v.location,
     location_frac |-> v.location_frac, slots |-> glsl_count_attribute_slots(v.type),
     always_active_io |-> IF mode = nir_var_shader_out THEN v.out_active ELSE v.in_active,
     explicit_xfb_buffer |-> FALSE, type |-> v.type, interpolation |-> v.interpolation,
     sample |-> v.sample, centroid |-> v.centroid]

Float == GlslType("float", 1, 0)
Inactive == <<FALSE, FALSE>>

(* Variables that cannot move: none; two that fill three components of two slots; a
   vector and an array that leave only the first generic slot and one component of
   the second to the other varyings of an interface of MAX_VARYING slots. *)
BaseLayouts ==
    { <<>>,
      << Varying(FALSE, VARYING_SLOT_VAR0, 0, GlslType("int", 3, 0), INTERP_MODE_FLAT,
                 FALSE, Inactive, FALSE),
         Varying(FALSE, VARYING_SLOT_VAR0 + 1, 0, GlslType("float", 3, 0),
                 INTERP_MODE_SMOOTH, FALSE, Inactive, FALSE) >>,
      << Varying(FALSE, VARYING_SLOT_VAR0 + 1, 0, GlslType("float", 3, 0),
                 INTERP_MODE_SMOOTH, FALSE, Inactive, FALSE),
         Varying(FALSE, VARYING_SLOT_VAR0 + 2, 0, GlslType("float", 4, MAX_VARYING - 2),
                 INTERP_MODE_SMOOTH, FALSE, Inactive, FALSE) >> }

VaryingShapes ==
    << Varying(FALSE, VARYING_SLOT_VAR0 + 1, 3, Float, INTERP_MODE_SMOOTH, FALSE, Inactive, FALSE),
       Varying(FALSE, VARYING_SLOT_VAR0, 3, GlslType("int", 1, 0), INTERP_MODE_FLAT, FALSE,
               Inactive, FALSE),
       Varying(FALSE, VARYING_SLOT_VAR0 + 2, 0, Float, INTERP_MODE_FLAT, FALSE, Inactive, FALSE),
       Varying(FALSE, VARYING_SLOT_VAR0 + 3, 1, Float, INTERP_MODE_NONE, TRUE, Inactive, FALSE),
       Varying(FALSE, VARYING_SLOT_VAR0, 0, Float, INTERP_MODE_FLAT, FALSE, <<TRUE, FALSE>>, FALSE),
       Varying(FALSE, VARYING_SLOT_VAR0, 1, Float, INTERP_MODE_FLAT, FALSE, <<FALSE, TRUE>>,
               FALSE),
       Varying(TRUE, VARYING_SLOT_PATCH0, 1, Float, INTERP_MODE_NONE, FALSE, Inactive, FALSE),
       Varying(FALSE, VARYING_SLOT_VAR0, 2, GlslType("double", 1, 0), INTERP_MODE_FLAT,
               FALSE, Inactive, FALSE),
       Varying(FALSE, 0, 0, GlslType("float", 4, 0), INTERP_MODE_NONE, FALSE, Inactive, FALSE),
       Varying(FALSE, VARYING_SLOT_VAR0 + 4, 0, GlslType("float", 1, 2), INTERP_MODE_SMOOTH,
               FALSE, <<TRUE, TRUE>>, FALSE),
       Varying(FALSE, VARYING_SLOT_VAR0 + 5, 1, Float, INTERP_MODE_NONE, FALSE, Inactive, TRUE) >>

(* The (slot, component) positions a variable occupies, per patch class. *)
PositionsOf(v) ==
    LET dmul == IF glsl_type_is_64bit(glsl_without_array(v.type)) THEN 2 ELSE 1
        n == glsl_get_vector_elements(glsl_without_array(v.type)) * dmul
        slots == glsl_count_attribute_slots(v.type)
    IN  { <<v.patch, s, c>> : s \in v.location..(v.location + slots - 1),
                              c \in v.location_frac..(v.location_frac + n - 1) }

NoOverlap(vs) ==
    \A a, b \in 1..Len(vs) : a # b => PositionsOf(vs[a]) \cap PositionsOf(vs[b]) = {}

(* The variables that share a generic slot have the same interpolation and the same
   bit size. *)
SlotsAgree(vs, default_to_smooth_interp) ==
    \A a, b \in 1..Len(vs) :
        (/\ vs[a].location >= VARYING_SLOT_VAR0 /\ vs[a].patch = vs[b].patch
         /\ \E pa \in PositionsOf(vs[a]) : \E pb \in PositionsOf(vs[b]) : pa[2] = pb[2])
        => /\ get_interp_type(vs[a], vs[a].type, default_to_smooth_interp)
                = get_interp_type(vs[b], vs[b].type, default_to_smooth_interp)
           /\ get_interp_loc(vs[a]) = get_interp_loc(vs[b])
           /\ glsl_type_is_32bit(glsl_without_array(vs[a].type))
                = glsl_type_is_32bit(glsl_without_array(vs[b].type))

(* The chosen shapes, in the order of VaryingShapes. *)
Chosen(S) ==
    LET F[i \in 0..Len(VaryingShapes)] ==
            IF i = 0 THEN <<>>
            ELSE IF i \in S THEN Append(F[i - 1], VaryingShapes[i]) ELSE F[i - 1]
    IN  F[Len(VaryingShapes)]

Reverse(s) == [i \in 1..Len(s) |-> s[Len(s) + 1 - i]]

(* Interfaces: variables that cannot move, then up to MaxVars other varyings; patches
   and outputs only the producer reads exist between tessellation stages only. *)
Interfaces(stage) ==
    { base \o Chosen(S) : base \in BaseLayouts,
        S \in {T \in SUBSET (1..Len(VaryingShapes)) :
                  /\ Cardinality(T) \in 1..MaxVars
                  /\ stage # MESA_SHADER_TESS_CTRL =>
                         \A i \in T : ~VaryingShapes[i].patch /\ ~VaryingShapes[i].intra} }

MaskOfVars(vs, patch) ==
    UNION { get_variable_io_mask(vs[i]) : i \in {j \in 1..Len(vs) : vs[j].patch = patch} }

(* The slot a usage mask may lack: the second slot of the always-active array. *)
DropChoices == { {}, {VARYING_SLOT_VAR0 + 5} }

InitCompact ==
    /\ FmtIdle /\ TrIdle /\ NirIdle /\ AioIdle
    /\ lpc = "cv_unmoveable_out"
    /\ \E default_to_smooth_interp \in BOOLEAN : lk = NoCompact(default_to_smooth_interp, 1)
    /\ \E stage \in {MESA_SHADER_VERTEX, MESA_SHADER_TESS_CTRL} :
       \E iface \in {x \in Interfaces(stage) :
                        NoOverlap(x) /\ SlotsAgree(x, lk.default_to_smooth_interp)} :
       \E reversed \in BOOLEAN, drop \in DropChoices, all_loaded \in BOOLEAN :
          LET outs == [i \in 1..Len(iface) |-> CompactVar(iface[i], nir_var_shader_out)]
              ins == SelectSeq([i \in 1..Len(iface) |-> CompactVar(iface[i], nir_var_shader_in)],
                               LAMBDA v : \E i \in 1..Len(iface) :
                                   ~iface[i].intra /\ v = CompactVar(iface[i], nir_var_shader_in))
              pvars == IF reversed THEN Reverse(outs) ELSE outs
              ploads == IF stage # MESA_SHADER_TESS_CTRL THEN {}
                        ELSE IF all_loaded THEN 1..Len(pvars)
                        ELSE {i \in 1..Len(pvars) :
                                 \E k \in 1..Len(iface) :
                                     iface[k].intra
                                     /\ pvars[i] = CompactVar(iface[k], nir_var_shader_out)}
          IN  /\ producer =
                     [stage |-> stage, vars |-> pvars, loads |-> ploads,
                      outputs_written |-> MaskOfVars(pvars, FALSE) \ drop,
                      outputs_read |->
                          UNION {get_variable_io_mask(pvars[i]) :
                                    i \in {j \in ploads : ~pvars[j].patch}} \ drop,
                      patch_outputs_written |-> MaskOfVars(pvars, TRUE),
                      patch_outputs_read |->
                          UNION {get_variable_io_mask(pvars[i]) :
                                    i \in {j \in ploads : pvars[j].patch}}]
              /\ consumer =
                     [stage |-> IF stage = MESA_SHADER_TESS_CTRL
                                THEN MESA_SHADER_TESS_EVAL ELSE MESA_SHADER_FRAGMENT,
                      vars |-> ins,
                      loads |-> IF all_loaded \/ stage = MESA_SHADER_TESS_CTRL
                                THEN 1..Len(ins) ELSE 2..Len(ins),
                      inputs_read |-> MaskOfVars(ins, FALSE) \ drop,
                      patch_inputs_read |-> MaskOfVars(ins, TRUE)]
    /\ lin = [producer |-> producer, consumer |-> consumer]

NextCompact ==
    \/ CvUnmoveableOut
    \/ CvUnmoveableIn
    \/ CvGather
    \/ CvSort
    \/ CvAssignPatch
    \/ CvAssign
    \/ CvRemapConsumer
    \/ CvRemapProducer
    \/ CvAgain

SpecCompact == InitCompact /\ [][NextCompact]_vars

(***************************************************************************)
(* Claims about nir_compact_varyings                                       *)
(***************************************************************************)
Returned == lpc = "cv_done"

Moved(before, after) ==
    before.location # after.location \/ before.location_frac # after.location_frac

(* C13: a producer output and a consumer input that had the same slot and component
   before nir_compact_varyings have the same slot and component after it. *)
C13_PairsStayTogether ==
    Returned =>
        \A i \in 1..Len(producer.vars) : \A j \in 1..Len(consumer.vars) :
            (/\ lin.producer.vars[i].mode = nir_var_shader_out
             /\ lin.consumer.vars[j].mode = nir_var_shader_in
             /\ lin.producer.vars[i].location = lin.consumer.vars[j].location
             /\ lin.producer.vars[i].location_frac = lin.consumer.vars[j].location_frac)
            => /\ producer.vars[i].location = consumer.vars[j].location
               /\ producer.vars[i].location_frac = consumer.vars[j].location_frac

(* An output and its input were moved to another slot, together. *)
C13_Witness ==
    /\ Returned
    /\ \E i \in 1..Len(producer.vars) : \E j \in 1..Len(consumer.vars) :
        /\ lin.producer.vars[i].location = lin.consumer.vars[j].location
        /\ lin.producer.vars[i].location_frac = lin.consumer.vars[j].location_frac
        /\ lin.producer.vars[i].location # producer.vars[i].location
        /\ producer.vars[i].location = consumer.vars[j].location
        /\ producer.vars[i].location_frac = consumer.vars[j].location_frac

(* C14: nir_compact_varyings run on the pair it has compacted changes the location and
   the component of no variable. *)
C14_SecondRunChangesNothing ==
    (Returned /\ lk.run = 2) =>
        /\ \A i \in 1..Len(producer.vars) : ~Moved(lin.producer.vars[i], producer.vars[i])
        /\ \A j \in 1..Len(consumer.vars) : ~Moved(lin.consumer.vars[j], consumer.vars[j])

(* The generic varyings of a stage that share a slot agree on the interpolation type
   and on the interpolation location. *)
SlotsOfVar(v) == {<<v.patch, s>> : s \in v.location..(v.location + v.slots - 1)}

SameSlotSameInterp(vs) ==
    \A a, b \in 1..Len(vs) :
        (/\ InRemapRange(vs[a]) /\ InRemapRange(vs[b])
         /\ vs[a].mode = vs[b].mode
         /\ SlotsOfVar(vs[a]) \cap SlotsOfVar(vs[b]) # {})
        => /\ get_interp_type(vs[a], vs[a].type, lk.default_to_smooth_interp)
                = get_interp_type(vs[b], vs[b].type, lk.default_to_smooth_interp)
           /\ get_interp_loc(vs[a]) = get_interp_loc(vs[b])

(* No variable was moved into a slot in which a variable that is not 32-bit stays. *)
NotMovedToNon32bit(before, after) ==
    \A a, b \in 1..Len(after) :
        (/\ Moved(before[a], after[a]) /\ ~Moved(before[b], after[b])
         /\ InRemapRange(after[b])
         /\ SlotsOfVar(after[a]) \cap SlotsOfVar(after[b]) # {})
        => glsl_type_is_32bit(glsl_without_array(after[b].type))

(* C15: after nir_compact_varyings of a pair whose slots were consistent, two varyings
   in the same slot have the same interpolation type and location, and no varying was
   moved into a slot whose occupant is not 32-bit. *)
C15_SlotsConsistent ==
    (/\ Returned
     /\ SameSlotSameInterp(lin.producer.vars) /\ SameSlotSameInterp(lin.consumer.vars))
    => /\ SameSlotSameInterp(producer.vars) /\ SameSlotSameInterp(consumer.vars)
       /\ NotMovedToNon32bit(lin.producer.vars, producer.vars)
       /\ NotMovedToNon32bit(lin.consumer.vars, consumer.vars)

(* The slots of an always-active variable in the remappable range, as bits of the
   usage mask of its patch class. *)
RangeOf(v) ==
    BITFIELD64_RANGE(v.location - (IF v.patch THEN VARYING_SLOT_PATCH0 ELSE 0), v.slots)

UsedMask(sh, v) ==
    IF v.mode = nir_var_shader_out
    THEN (IF v.patch THEN sh.patch_outputs_written ELSE sh.outputs_written)
    ELSE (IF v.patch THEN sh.patch_inputs_read ELSE sh.inputs_read)

ReadMask(sh, v) == IF v.patch THEN sh.patch_outputs_read ELSE sh.outputs_read

AlwaysActive(before, i) == before.vars[i].always_active_io /\ InRemapRange(before.vars[i])

(* C16 as stated: the recomputed masks contain every slot of the range of an
   always-active variable that is used (read, for the outputs read mask). *)
C16_AsStated ==
    Returned =>
        /\ \A i \in 1..Len(producer.vars) :
            AlwaysActive(lin.producer, i) =>
              /\ RangeOf(lin.producer.vars[i]) \cap UsedMask(lin.producer, producer.vars[i]) # {}
                    => RangeOf(producer.vars[i]) \subseteq UsedMask(producer, producer.vars[i])
              /\ RangeOf(lin.producer.vars[i]) \cap ReadMask(lin.producer, producer.vars[i]) # {}
                    => RangeOf(producer.vars[i]) \subseteq ReadMask(producer, producer.vars[i])
        /\ \A j \in 1..Len(consumer.vars) :
            AlwaysActive(lin.consumer, j) =>
              (RangeOf(lin.consumer.vars[j]) \cap UsedMask(lin.consumer, consumer.vars[j]) # {}
                    => RangeOf(consumer.vars[j]) \subseteq UsedMask(consumer, consumer.vars[j]))

(* C16: the recomputed masks contain every slot of the range of an always-active
   variable that the mask contained before the pass, when it contained one of the
   slots the variable had. *)
C16_MaskCopied ==
    Returned =>
        /\ \A i \in 1..Len(producer.vars) :
            AlwaysActive(lin.producer, i) =>
              /\ RangeOf(lin.producer.vars[i]) \cap UsedMask(lin.producer, producer.vars[i]) # {}
                    => (RangeOf(producer.vars[i]) \cap UsedMask(lin.producer, producer.vars[i]))
                           \subseteq UsedMask(producer, producer.vars[i])
              /\ RangeOf(lin.producer.vars[i]) \cap ReadMask(lin.producer, producer.vars[i]) # {}
                    => (RangeOf(producer.vars[i]) \cap ReadMask(lin.producer, producer.vars[i]))
                           \subseteq ReadMask(producer, producer.vars[i])
        /\ \A j \in 1..Len(consumer.vars) :
            AlwaysActive(lin.consumer, j) =>
              (RangeOf(lin.consumer.vars[j]) \cap UsedMask(lin.consumer, consumer.vars[j]) # {}
                    => (RangeOf(consumer.vars[j]) \cap UsedMask(lin.consumer, consumer.vars[j]))
                           \subseteq UsedMask(consumer, consumer.vars[j]))

(* An always-active array whose range was marked in part is marked in the same part. *)
C16_Witness ==
    /\ Returned
    /\ \E i \in 1..Len(producer.vars) :
        /\ AlwaysActive(lin.producer, i)
        /\ producer.vars[i].slots = 2
        /\ RangeOf(producer.vars[i]) \cap lin.producer.outputs_written # {}
        /\ ~(RangeOf(producer.vars[i]) \subseteq lin.producer.outputs_written)
        /\ RangeOf(producer.vars[i]) \cap producer.outputs_written
              = RangeOf(producer.vars[i]) \cap lin.producer.outputs_written

(* A variable nir_compact_varyings is not to repack: a built-in, an always-active
   variable, a variable whose type is not a 32-bit scalar. *)
NotRepackable(v) ==
    \/ v.location < VARYING_SLOT_VAR0
    \/ v.always_active_io
    \/ ~is_packing_supported_for_type(v.type)

(* C17: nir_compact_varyings leaves the location and the component of every variable
   that is not repackable as they were, in both stages. *)
C17_NotRepackableStays ==
    Returned =>
        /\ \A i \in 1..Len(producer.vars) :
            NotRepackable(lin.producer.vars[i])
                => ~Moved(lin.producer.vars[i], producer.vars[i])
        /\ \A j \in 1..Len(consumer.vars) :
            NotRepackable(lin.consumer.vars[j])
                => ~Moved(lin.consumer.vars[j], consumer.vars[j])

(* The generic slots the outputs of the producer occupy. *)
SlotsUsedBy(vs) ==
    UNION {SlotsOfVar(vs[i]) : i \in {k \in 1..Len(vs) : InRemapRange(vs[k])}}

(* C18: after nir_compact_varyings the varyings occupy the least number of slots, so
   never more slots than before. *)
C18_NoMoreSlots ==
    Returned =>
        Cardinality(SlotsUsedBy(producer.vars)) <= Cardinality(SlotsUsedBy(lin.producer.vars))

(***************************************************************************)
(* nir_assign_linked_io_var_locations                                      *)
(***************************************************************************)
VARYING_SLOT_TESS_LEVEL_OUTER == 26
VARYING_SLOT_BOUNDING_BOX1 == 29

(* "unreachable" stands for the call of unreachable(). *)
get_linked_variable_location(location, patch) ==
    IF ~patch THEN location
    ELSE IF location >= VARYING_SLOT_PATCH0 THEN location - VARYING_SLOT_PATCH0 + 4
    ELSE IF location >= VARYING_SLOT_TESS_LEVEL_OUTER /\ location <= VARYING_SLOT_BOUNDING_BOX1
    THEN location - VARYING_SLOT_TESS_LEVEL_OUTER
    ELSE "unreachable"

DIV_ROUND_UP(a, b) == (a + b - 1) \div b

u_bit_consecutive64(start, count) == {b \in start..(start + count - 1) : b < 64}

get_linked_variable_io_mask(variable) ==
    LET slots == IF variable.compact
                 THEN DIV_ROUND_UP(variable.location_frac + variable.type.length, 4)
                 ELSE glsl_count_attribute_slots(variable.type)
    IN  u_bit_consecutive64(0, slots)

(* mask << loc in 64 bits *)
ShiftLeft64(mask, shift) == {b + shift : b \in {x \in mask : x + shift < 64}}

(* The loop or-ing mask << loc of the variables of a mode and a patch class. *)
RECURSIVE LinkedMask(_, _, _, _, _)
LinkedMask(vs, mode, patch, mask, i) ==
    IF i > Len(vs) THEN mask
    ELSE LinkedMask(vs, mode, patch,
             IF vs[i].mode = mode /\ vs[i].patch = patch
             THEN mask \cup ShiftLeft64(get_linked_variable_io_mask(vs[i]),
                                        get_linked_variable_location(vs[i].location, patch))
             ELSE mask,
             i + 1)

(* The loop setting data.driver_location of the variables of a mode. *)
AssignLinked(vs, mode, io_mask, patch_io_mask) ==
    [i \in 1..Len(vs) |->
        IF vs[i].mode # mode THEN vs[i]
        ELSE LET linked_loc == get_linked_variable_location(vs[i].location, vs[i].patch)
                 mask == IF vs[i].patch THEN patch_io_mask ELSE io_mask
             IN  [vs[i] EXCEPT !.driver_location =
                     Cardinality(mask \cap u_bit_consecutive64(0, linked_loc)) * 4]]

LaProducerMask ==
    /\ lpc = "la_producer_mask"
    /\ lk' = [lk EXCEPT
                !.producer_output_mask =
                    LinkedMask(producer.vars, nir_var_shader_out, FALSE, {}, 1),
                !.producer_patch_output_mask =
                    LinkedMask(producer.vars, nir_var_shader_out, TRUE, {}, 1)]
    /\ lpc' = "la_consumer_mask"
    /\ UNCHANGED <<producer, consumer, lin>>
    /\ UNCHANGED <<fmtVars, trVars, nirVars, aioVars>>

LaConsumerMask ==
    /\ lpc = "la_consumer_mask"
    /\ lk' = [lk EXCEPT
                !.consumer_input_mask =
                    LinkedMask(consumer.vars, nir_var_shader_in, FALSE, {}, 1),
                !.consumer_patch_input_mask =
                    LinkedMask(consumer.vars, nir_var_shader_in, TRUE, {}, 1)]
    /\ lpc' = "la_producer"
    /\ UNCHANGED <<producer, consumer, lin>>
    /\ UNCHANGED <<fmtVars, trVars, nirVars, aioVars>>

LaAssignProducer ==
    /\ lpc = "la_producer"
    /\ producer' = [producer EXCEPT !.vars =
                       AssignLinked(producer.vars, nir_var_shader_out,
                           lk.producer_output_mask \cup lk.consumer_input_mask,
                           lk.producer_patch_output_mask \cup lk.consumer_patch_input_mask)]
    /\ lpc' = "la_consumer"
    /\ UNCHANGED <<consumer, lk, lin>>
    /\ UNCHANGED <<fmtVars, trVars, nirVars, aioVars>>

LaAssignConsumer_OwnMask ==
    /\ lpc = "la_consumer"
    /\ consumer' = [consumer EXCEPT !.vars =
                       AssignLinked(consumer.vars, nir_var_shader_in,
                           lk.consumer_input_mask, lk.consumer_patch_input_mask)]
    /\ lk' = lk
    /\ lpc' = "la_done"
    /\ UNCHANGED <<producer, lin>>
    /\ UNCHANGED <<fmtVars, trVars, nirVars, aioVars>>

(* The loop over the consumer's inputs and the result. *)
LaAssignConsumer ==
    /\ lpc = "la_consumer"
    /\ LET io_mask == lk.producer_output_mask \cup lk.consumer_input_mask
           patch_io_mask == lk.producer_patch_output_mask \cup lk.consumer_patch_input_mask
       IN  /\ consumer' = [consumer EXCEPT !.vars =
                              AssignLinked(consumer.vars, nir_var_shader_in,
                                           io_mask, patch_io_mask)]
           /\ lk' = [lk EXCEPT !.result =
                        [num_linked_io_vars |-> Cardinality(io_mask),
                         num_linked_patch_io_vars |-> Cardinality(patch_io_mask)]]
    /\ lpc' = "la_done"
    /\ UNCHANGED <<producer, lin>>
    /\ UNCHANGED <<fmtVars, trVars, nirVars, aioVars>>

(* A variable of a linked stage: where it is, its type, whether it is a compact
   array, and the driver location it has. *)
LinkedVar(mode, patch, location, location_frac, type, compact, driver_location) ==
    [mode |-> mode, patch |-> patch, location |-> location, location_frac |-> location_frac,
     type |-> type, compact |-> compact, driver_location |-> driver_location]

(* Position, a generic scalar, a generic array of two vec4, clip distances, a tess
   level, generic patches. *)
LinkedShapes(mode) ==
    { LinkedVar(mode, FALSE, 0, 0, GlslType("float", 4, 0), FALSE, 0),
      LinkedVar(mode, FALSE, VARYING_SLOT_VAR0, 0, Float, FALSE, 0),
      LinkedVar(mode, FALSE, VARYING_SLOT_VAR0, 1, Float, FALSE, 7),
      LinkedVar(mode, FALSE, VARYING_SLOT_VAR0 + 1, 0, GlslType("float", 4, 2), FALSE, 0),
      LinkedVar(mode, FALSE, VARYING_SLOT_VAR0 + 2, 0, Float, FALSE, 0),
      LinkedVar(mode, FALSE, 17, 2, GlslType("float", 1, 6), TRUE, 0),
      LinkedVar(mode, TRUE, VARYING_SLOT_TESS_LEVEL_OUTER, 0, GlslType("float", 1, 4), TRUE, 0),
      LinkedVar(mode, TRUE, VARYING_SLOT_PATCH0, 0, Float, FALSE, 0),
      LinkedVar(mode, TRUE, VARYING_SLOT_PATCH0 + 1, 0, GlslType("float", 4, 0), FALSE, 3) }

NoLinked ==
    [producer_output_mask |-> {}, producer_patch_output_mask |-> {},
     consumer_input_mask |-> {}, consumer_patch_input_mask |-> {},
     result |-> [num_linked_io_vars |-> 0, num_linked_patch_io_vars |-> 0]]

InitLinked ==
    /\ FmtIdle /\ TrIdle /\ NirIdle /\ AioIdle
    /\ lpc = "la_producer_mask"
    /\ \E vs \in SeqsUpTo(LinkedShapes(nir_var_shader_out), 1, MaxVars) :
           producer = [stage |-> MESA_SHADER_TESS_CTRL, vars |-> vs]
    /\ \E vs \in SeqsUpTo({v \in LinkedShapes(nir_var_shader_in) :
                                v.location # 0 /\ v.location_frac # 2
                                /\ v.location # VARYING_SLOT_PATCH0}, 1, MaxVars) :
           consumer = [stage |-> MESA_SHADER_TESS_EVAL, vars |-> vs]
    /\ lk = NoLinked
    /\ lin = [producer |-> producer, consumer |-> consumer]

NextLinked ==
    \/ LaProducerMask
    \/ LaConsumerMask
    \/ LaAssignProducer
    \/ LaAssignConsumer

SpecLinked == InitLinked /\ [][NextLinked]_vars

(***************************************************************************)
(* Claims about nir_assign_linked_io_var_locations                         *)
(***************************************************************************)
(* The outputs of the producer and the inputs of the consumer. *)
LinkedVars ==
    {producer.vars[i] : i \in {k \in 1..Len(producer.vars) :
                                  producer.vars[k].mode = nir_var_shader_out}}
    \cup {consumer.vars[j] : j \in {k \in 1..Len(consumer.vars) :
                                  consumer.vars[k].mode = nir_var_shader_in}}

(* C19: after nir_assign_linked_io_var_locations an output of the producer and an input
   of the consumer with the same slot and patch flag have the same driver location, and
   two variables of the same patch class at different slots have different ones. *)
C19_LinkedLocations ==
    lpc = "la_done" =>
        \A v, w \in LinkedVars :
            v.patch = w.patch =>
                (v.location = w.location <=> v.driver_location = w.driver_location)

(* An output and the input at its slot got a driver location that is not 0, and an
   input at another slot another one. *)
C19_Witness ==
    /\ lpc = "la_done"
    /\ \E i \in 1..Len(producer.vars) : \E j, k \in 1..Len(consumer.vars) :
        /\ producer.vars[i].location = consumer.vars[j].location
        /\ producer.vars[i].patch /\ consumer.vars[j].patch /\ consumer.vars[k].patch
        /\ producer.vars[i].driver_location = consumer.vars[j].driver_location
        /\ producer.vars[i].driver_location > 0
        /\ consumer.vars[k].location # consumer.vars[j].location
        /\ consumer.vars[k].driver_location # consumer.vars[j].driver_location

(***************************************************************************)
(* nir_assign_io_var_locations                                             *)
(***************************************************************************)
VERT_ATTRIB_GENERIC0 == 16
FRAG_RESULT_DATA0 == 4

(* insert_sorted: before the first variable of the list with a greater location. *)
insert_sorted(var_list, new_var) ==
    LET greater == {k \in 1..Len(var_list) : var_list[k].location > new_var.location}
    IN  IF greater = {} THEN Append(var_list, new_var)
        ELSE LET at == CHOOSE k \in greater : \A j \in greater : k <= j
             IN  SubSeq(var_list, 1, at - 1) \o <<new_var>> \o SubSeq(var_list, at, Len(var_list))

(* sort_varyings: the variables of the mode, sorted; the others stay in the shader. *)
RECURSIVE sort_varyings(_, _, _, _)
sort_varyings(vs, mode, sorted_list, i) ==
    IF i > Len(vs) THEN sorted_list
    ELSE sort_varyings(vs, mode,
             IF vs[i].mode = mode THEN insert_sorted(sorted_list, vs[i]) ELSE sorted_list,
             i + 1)

AioBase(var, stage) ==
    IF var.mode = nir_var_shader_in /\ stage = MESA_SHADER_VERTEX THEN VERT_ATTRIB_GENERIC0
    ELSE IF var.mode = nir_var_shader_out /\ stage = MESA_SHADER_FRAGMENT THEN FRAG_RESULT_DATA0
    ELSE VARYING_SLOT_VAR0

(* What reading an entry of assigned_locations that was never written may give. *)
Uninitialised == {0, 1, 9}

AssignedAt(assigned_locations, location) ==
    IF location \in DOMAIN assigned_locations THEN {assigned_locations[location]}
    ELSE Uninitialised

(* assigned_locations with the entries first..(first + count - 1) set to value.. *)
AssignRange(assigned_locations, first, count, value) ==
    [k \in DOMAIN assigned_locations \cup first..(first + count - 1) |->
        IF k >= first /\ k < first + count THEN value + (k - first) ELSE assigned_locations[k]]

(* The head of the loop body for the variable io.io_vars[io.i]: the location counter
   and last_partial after the compact handling, var_size and processed. *)
AioHead ==
    LET var == io.io_vars[io.i]
        type == var.type
        bump == IF var.compact THEN io.last_partial /\ var.location_frac = 0
                ELSE io.last_partial
        location == IF bump THEN io.location + 1 ELSE io.location
        start == 4 * location + var.location_frac
        end == start + type.length
        var_size == IF var.compact THEN (end \div 4) - location
                    ELSE glsl_count_attribute_slots(type)
        last_partial == IF var.compact THEN end % 4 # 0 ELSE FALSE
        base == AioBase(var, io.stage)
        bits == IF var.location >= base
                THEN {var.location - base + k : k \in 0..(var_size - 1)} ELSE {}
    IN  [var |-> var, location |-> location, var_size |-> var_size,
         last_partial |-> last_partial,
         processed |-> bits \cap io.processed_locs[var.index + 1] # {},
         processed_locs |-> [io.processed_locs EXCEPT ![var.index + 1] = @ \cup bits]]

(* One iteration of the loop for a variable of which a slot was already processed. *)
AioVisitProcessed ==
    /\ apc = "aio_loop"
    /\ io.i <= Len(io.io_vars)
    /\ LET h == AioHead
       IN  /\ h.processed
           /\ \E driver_location \in AssignedAt(io.assigned_locations, h.var.location) :
              LET last_slot_location == driver_location + h.var_size
                  num_unallocated_slots == last_slot_location - h.location
                  first_unallocated_slot == h.var_size - num_unallocated_slots
                  extend == last_slot_location > h.location /\ first_unallocated_slot >= 0
              IN  io' = [io EXCEPT
                       !.io_vars[io.i].driver_location = driver_location,
                       !.read_uninitialised =
                           @ \/ h.var.location \notin DOMAIN io.assigned_locations,
                       !.processed_locs = h.processed_locs,
                       !.last_partial = h.last_partial,
                       !.assigned_locations =
                           IF extend
                           THEN AssignRange(@, h.var.location + first_unallocated_slot,
                                            num_unallocated_slots, h.location)
                           ELSE @,
                       !.location = IF extend THEN h.location + num_unallocated_slots
                                    ELSE h.location,
                       !.i = @ + 1]
    /\ UNCHANGED <<apc, io_shader>>
    /\ UNCHANGED <<fmtVars, trVars, nirVars, lnVars>>

(* One iteration of the loop for a variable that gets the next locations. *)
AioVisitNew ==
    /\ apc = "aio_loop"
    /\ io.i <= Len(io.io_vars)
    /\ LET h == AioHead
       IN  /\ ~h.processed
           /\ io' = [io EXCEPT
                       !.io_vars[io.i].driver_location = h.location,
                       !.processed_locs = h.processed_locs,
                       !.last_partial = h.last_partial,
                       !.assigned_locations =
                           AssignRange(@, h.var.location, h.var_size, h.location),
                       !.location = h.location + h.var_size,
                       !.i = @ + 1]
    /\ UNCHANGED <<apc, io_shader>>
    /\ UNCHANGED <<fmtVars, trVars, nirVars, lnVars>>

(* sort_varyings(shader, mode, &io_vars) and the locals before the loop. *)
AioSort ==
    /\ apc = "aio_sort"
    /\ io' = [io EXCEPT !.io_vars = sort_varyings(io_shader.vars, io.mode, <<>>, 1),
                        !.i = 1, !.location = 0, !.last_partial = FALSE,
                        !.assigned_locations = << >>, !.processed_locs = <<{}, {}>>]
    /\ io_shader' = [io_shader EXCEPT !.vars = SelectSeq(@, LAMBDA v : v.mode # io.mode)]
    /\ apc' = "aio_loop"
    /\ UNCHANGED <<fmtVars, trVars, nirVars, lnVars>>

(* if (last_partial) location++; exec_list_append(...); *size = location; *)
AioReturn ==
    /\ apc = "aio_loop"
    /\ io.i > Len(io.io_vars)
    /\ io' = [io EXCEPT !.size = IF io.last_partial THEN io.location + 1 ELSE io.location]
    /\ io_shader' = [io_shader EXCEPT !.vars = @ \o io.io_vars]
    /\ apc' = "aio_done"
    /\ UNCHANGED <<fmtVars, trVars, nirVars, lnVars>>

MaxIoVars == 3

(* A variable at a location counted from the first user-defined one of its kind. *)
IoVar(mode, location, location_frac, type, compact, index) ==
    [mode |-> mode, location |-> location, location_frac |-> location_frac, type |-> type,
     compact |-> compact, index |-> index, driver_location |-> 0]

(* Built-ins (a vector, and arrays of scalars that are compact: two that share a slot
   and one that fills a slot and the start of the next), user-defined scalars at two
   components of a slot, arrays of scalars of three slots and of two at these
   components, a scalar and a vector in the slots after, and for the outputs of a
   fragment shader a vector with index 1. *)
IoShapes(mode, stage) ==
    LET base == AioBase([mode |-> mode], stage)
    IN  { IoVar(mode, 0, 0, GlslType("float", 4, 0), FALSE, 0),
          IoVar(mode, 1, 0, GlslType("float", 1, 2), TRUE, 0),
          IoVar(mode, 1, 2, GlslType("float", 1, 2), TRUE, 0),
          IoVar(mode, 2, 0, GlslType("float", 1, 5), TRUE, 0),
          IoVar(mode, base, 0, Float, FALSE, 0),
          IoVar(mode, base, 1, Float, FALSE, 0),
          IoVar(mode, base, 0, GlslType("float", 1, 3), FALSE, 0),
          IoVar(mode, base, 1, GlslType("float", 1, 2), FALSE, 0),
          IoVar(mode, base + 1, 2, Float, FALSE, 0),
          IoVar(mode, base + 2, 0, GlslType("float", 4, 0), FALSE, 0) }
        \cup (IF mode = nir_var_shader_out /\ stage = MESA_SHADER_FRAGMENT
              THEN {IoVar(mode, base, 0, GlslType("float", 4, 0), FALSE, 1)} ELSE {})

(* The index, slot and component of every scalar of a variable. *)
IoPositionsOf(v) ==
    IF v.compact
    THEN { <<v.index, v.location + ((v.location_frac + k) \div 4), (v.location_frac + k) % 4>> :
              k \in 0..(v.type.length - 1) }
    ELSE { <<v.index, s, c>> :
              s \in v.location..(v.location + glsl_count_attribute_slots(v.type) - 1),
              c \in v.location_frac..(v.location_frac + v.type.vector_elements - 1) }

IoNoOverlap(vs) ==
    \A a, b \in 1..Len(vs) : a # b => IoPositionsOf(vs[a]) \cap IoPositionsOf(vs[b]) = {}

IoCalls ==
    { <<nir_var_shader_in, MESA_SHADER_VERTEX>>, <<nir_var_shader_out, MESA_SHADER_VERTEX>>,
      <<nir_var_shader_out, MESA_SHADER_FRAGMENT>> }

NoIo(mode, stage) ==
    [mode |-> mode, stage |-> stage, io_vars |-> <<>>, i |-> 1, location |-> 0,
     last_partial |-> FALSE, assigned_locations |-> << >>, processed_locs |-> <<{}, {}>>,
     size |-> "none", read_uninitialised |-> FALSE]

InitAssign ==
    /\ FmtIdle /\ TrIdle /\ NirIdle /\ LnIdle
    /\ apc = "aio_sort"
    /\ \E c \in IoCalls :
          /\ io = NoIo(c[1], c[2])
          /\ \E vs \in SeqsUpTo(IoShapes(c[1], c[2]), 0, MaxIoVars) :
                 /\ IoNoOverlap(vs)
                 /\ io_shader = [vars |-> vs]

NextAssign ==
    \/ AioSort
    \/ AioVisitProcessed
    \/ AioVisitNew
    \/ AioReturn

SpecAssign == InitAssign /\ [][NextAssign]_vars

(* The variables of the call, in the order of the loop, once it has returned. *)
AssignedVars == IF apc = "aio_done" THEN io.io_vars ELSE <<>>

UserDefined(v) == ~v.compact /\ v.location >= AioBase(v, io.stage)

(* The slots a variable takes from its driver location on. *)
IoSpan(v) ==
    IF v.compact THEN (v.location_frac + v.type.length + 3) \div 4
    ELSE glsl_count_attribute_slots(v.type)

SameSlotSameDriverLocation ==
    \A a, b \in 1..Len(AssignedVars) :
        LET v == AssignedVars[a]
            w == AssignedVars[b]
        IN  UserDefined(v) /\ UserDefined(w) /\ v.location = w.location
                => v.driver_location = w.driver_location

DriverLocationsAscend ==
    \A a, b \in 1..Len(AssignedVars) :
        /\ a < b => AssignedVars[a].location <= AssignedVars[b].location
        /\ a < b => AssignedVars[a].driver_location <= AssignedVars[b].driver_location
        /\ a = 1 => AssignedVars[a].driver_location = 0

SizeIsHighestPlusOne ==
    apc = "aio_done" =>
        /\ \A a \in 1..Len(AssignedVars) :
               AssignedVars[a].driver_location + IoSpan(AssignedVars[a]) <= io.size
        /\ \/ io.size = 0 /\ AssignedVars = <<>>
           \/ \E a \in 1..Len(AssignedVars) :
                  AssignedVars[a].driver_location + IoSpan(AssignedVars[a]) = io.size

(* C20: nir_assign_io_var_locations visits the variables in ascending declared slot
   and starts at 0; two user-defined variables that are not compact and are declared
   at the same slot get the same driver location; driver locations never decrease
   along ascending declared slots; the size is one more than the highest index
   allocated. *)
C20_DriverLocations ==
    /\ SameSlotSameDriverLocation
    /\ DriverLocationsAscend
    /\ SizeIsHighestPlusOne

(***************************************************************************)
(* Claims about the loop of compact_components                             *)
(***************************************************************************)
(* The records of the sorted array the loop has gone through. *)
RecordsDone == IF lpc = "cv_assign" THEN 1..(lk.i - 1) ELSE {}

NewPosition(rec) ==
    RemapAt(lk.remap, rec.var.location - VARYING_SLOT_VAR0, rec.var.location_frac)

Placed(rec) ==
    LET slot == NewPosition(rec).location - VARYING_SLOT_VAR0
    IN  /\ NewPosition(rec).location # 0
        /\ IF rec.is_patch THEN MAX_VARYING <= slot /\ slot < MAX_VARYINGS_INCL_PATCH
           ELSE 0 <= slot /\ slot < MAX_VARYING

LoopHeadAssertion ==
    (lpc = "cv_assign" /\ lk.i <= Len(lk.info))
        => (lk.info[lk.i].is_patch \/ lk.cursor < MAX_VARYING)

(* C24: in the loop of compact_components every record the loop has gone through has
   a new position, in [0, MAX_VARYING) when it is not a patch and in
   [MAX_VARYING, MAX_VARYINGS_INCL_PATCH) when it is one, and the assertion at the
   head of the loop holds at every iteration. *)
C24_EveryRecordPlaced ==
    /\ \A k \in RecordsDone : Placed(lk.info[k])
    /\ LoopHeadAssertion

(***************************************************************************)
(* Claims about the usage masks nir_compact_varyings rewrites              *)
(***************************************************************************)
BuiltinBits(mask) == mask \cap BITFIELD64_RANGE(0, VARYING_SLOT_VAR0)

InputsReadBuiltinsKept ==
    Returned => BuiltinBits(consumer.inputs_read) = BuiltinBits(lin.consumer.inputs_read)

OutputsWrittenBuiltinsKept ==
    Returned => BuiltinBits(producer.outputs_written) = BuiltinBits(lin.producer.outputs_written)

OutputsReadBuiltinsKept ==
    Returned => BuiltinBits(producer.outputs_read) = BuiltinBits(lin.producer.outputs_read)

(* C28: nir_compact_varyings leaves the bits of the slots below VARYING_SLOT_VAR0
   as they were in the consumer's inputs_read, the producer's outputs_written and
   the producer's outputs_read. *)
C28_BuiltinBitsKept ==
    /\ InputsReadBuiltinsKept
    /\ OutputsWrittenBuiltinsKept
    /\ OutputsReadBuiltinsKept

(* C29: when no two variables of the producer and no two of the consumer overlap on
   a slot and component before nir_compact_varyings, none overlap after it. *)
C29_NoOverlapAfter ==
    (Returned /\ NoOverlap(lin.producer.vars) /\ NoOverlap(lin.consumer.vars))
        => (NoOverlap(producer.vars) /\ NoOverlap(consumer.vars))

(***************************************************************************)
(* Claims about a second call of nir_remove_unused_varyings                *)
(***************************************************************************)
SecondCallReturned == lpc = "rv_done" /\ lk.run = 2

(* C30: a second call of nir_remove_unused_varyings on the pair the first call
   returned demotes no variable and returns no progress. *)
C30_FixedPoint ==
    SecondCallReturned =>
        /\ ~lk.progress
        /\ producer.vars = lin.producer.vars
        /\ consumer.vars = lin.consumer.vars

(***************************************************************************)
(* nir_link_xfb_varyings                                                   *)
(***************************************************************************)
InXfbRange(var) ==
    /\ var.location >= VARYING_SLOT_VAR0
    /\ var.location - VARYING_SLOT_VAR0 < MAX_VARYING

(* input_vars[] after the loop over the inputs vs[i..] of the consumer: for a slot,
   the index in the list of the variable stored last, 0 for NULL. *)
RECURSIVE XfbInputVars(_, _, _)
XfbInputVars(input_vars, vs, i) ==
    IF i > Len(vs) THEN input_vars
    ELSE XfbInputVars(IF vs[i].mode = nir_var_shader_in /\ InXfbRange(vs[i])
                      THEN [input_vars EXCEPT ![vs[i].location - VARYING_SLOT_VAR0] = i]
                      ELSE input_vars,
                      vs, i + 1)

(* The inputs of the consumer after the loop over the outputs outs[i..] of the producer. *)
RECURSIVE XfbMarkInputs(_, _, _, _)
XfbMarkInputs(ins, input_vars, outs, i) ==
    IF i > Len(outs) THEN ins
    ELSE LET var == outs[i]
             location == var.location - VARYING_SLOT_VAR0
         IN  XfbMarkInputs(IF /\ var.mode = nir_var_shader_out /\ InXfbRange(var)
                              /\ var.always_active_io
                              /\ input_vars[location] # 0
                           THEN [ins EXCEPT ![input_vars[location]].always_active_io = TRUE]
                           ELSE ins,
                           input_vars, outs, i + 1)

(* nir_variable *input_vars[MAX_VARYING] = { 0 } and the loop over the inputs. *)
XfbInputs ==
    /\ lpc = "xfb_inputs"
    /\ lk' = [lk EXCEPT !.input_vars =
                 XfbInputVars([s \in 0..(MAX_VARYING - 1) |-> 0], consumer.vars, 1)]
    /\ lpc' = "xfb_outputs"
    /\ UNCHANGED <<producer, consumer, lin>>
    /\ UNCHANGED <<fmtVars, trVars, nirVars, aioVars>>

(* The loop over the outputs of the producer. *)
XfbOutputs ==
    /\ lpc = "xfb_outputs"
    /\ consumer' = [consumer EXCEPT !.vars =
                       XfbMarkInputs(consumer.vars, lk.input_vars, producer.vars, 1)]
    /\ lpc' = "xfb_done"
    /\ UNCHANGED <<producer, lk, lin>>
    /\ UNCHANGED <<fmtVars, trVars, nirVars, aioVars>>

(* Outputs: two scalars of one slot of which the first is always active, an
   always-active vector, a built-in, a patch, a scalar that is not always active,
   and a variable that is no output. *)
XfbProducerShapes ==
    { LinkVar(nir_var_shader_out, FALSE, VARYING_SLOT_VAR0, 0, 1, FALSE, TRUE),
      LinkVar(nir_var_shader_out, FALSE, VARYING_SLOT_VAR0, 1, 1, FALSE, FALSE),
      LinkVar(nir_var_shader_out, FALSE, VARYING_SLOT_VAR0 + 1, 0, 4, FALSE, TRUE),
      LinkVar(nir_var_shader_out, FALSE, 0, 0, 4, FALSE, TRUE),
      LinkVar(nir_var_shader_out, TRUE, VARYING_SLOT_PATCH0, 0, 1, FALSE, TRUE),
      LinkVar(nir_var_shader_out, FALSE, VARYING_SLOT_VAR0 + 2, 0, 1, FALSE, FALSE),
      LinkVar(nir_var_shader_temp, FALSE, VARYING_SLOT_VAR0 + 2, 0, 1, FALSE, TRUE) }

(* The inputs declared for these outputs. *)
XfbConsumerShapes ==
    { LinkVar(nir_var_shader_in, FALSE, VARYING_SLOT_VAR0, 0, 1, FALSE, FALSE),
      LinkVar(nir_var_shader_in, FALSE, VARYING_SLOT_VAR0, 1, 1, FALSE, FALSE),
      LinkVar(nir_var_shader_in, FALSE, VARYING_SLOT_VAR0 + 1, 0, 4, FALSE, FALSE),
      LinkVar(nir_var_shader_in, FALSE, 0, 0, 4, FALSE, FALSE),
      LinkVar(nir_var_shader_in, TRUE, VARYING_SLOT_PATCH0, 0, 1, FALSE, FALSE),
      LinkVar(nir_var_shader_in, FALSE, VARYING_SLOT_VAR0 + 2, 0, 1, FALSE, FALSE) }

InitXfb ==
    /\ FmtIdle /\ TrIdle /\ NirIdle /\ AioIdle
    /\ lpc = "xfb_inputs"
    /\ \E vs \in SeqsUpTo(XfbProducerShapes, 1, MaxVars) :
           producer = [stage |-> MESA_SHADER_VERTEX, vars |-> vs]
    /\ \E vs \in SeqsUpTo(XfbConsumerShapes, 1, MaxVars) :
           consumer = [stage |-> MESA_SHADER_FRAGMENT, vars |-> vs]
    /\ lk = [input_vars |-> [s \in 0..(MAX_VARYING - 1) |-> 0]]
    /\ lin = [producer |-> producer, consumer |-> consumer]

NextXfb ==
    \/ XfbInputs
    \/ XfbOutputs

SpecXfb == InitXfb /\ [][NextXfb]_vars

(***************************************************************************)
(* Claims about nir_link_xfb_varyings                                      *)
(***************************************************************************)
XfbReturned == lpc = "xfb_done"

(* The input has the slot of an always-active output of the producer. *)
FedByXfbOutput(vin) ==
    /\ vin.mode = nir_var_shader_in /\ InXfbRange(vin)
    /\ \E i \in 1..Len(lin.producer.vars) :
          /\ lin.producer.vars[i].mode = nir_var_shader_out
          /\ lin.producer.vars[i].always_active_io
          /\ lin.producer.vars[i].location = vin.location

XfbInputsMarked ==
    XfbReturned =>
        \A j \in 1..Len(consumer.vars) :
            FedByXfbOutput(lin.consumer.vars[j]) => consumer.vars[j].always_active_io

XfbNothingElseChanged ==
    XfbReturned =>
        /\ producer = lin.producer
        /\ \A j \in 1..Len(consumer.vars) :
              \/ consumer.vars[j] = lin.consumer.vars[j]
              \/ /\ FedByXfbOutput(lin.consumer.vars[j])
                 /\ consumer.vars[j] = [lin.consumer.vars[j] EXCEPT !.always_active_io = TRUE]

(* C27: after nir_link_xfb_varyings every input of the consumer in the generic range
   whose slot is the slot of an always-active output of the producer is always
   active, each of the inputs of one slot included, and nothing else has changed. *)
C27_XfbInputsMarked ==
    /\ XfbInputsMarked
    /\ XfbNothingElseChanged

(***************************************************************************)
(* util_format_is_pure_integer, util_format_is_float                       *)
(***************************************************************************)
util_format_is_pure_integer(format) ==
    LET desc == util_format_description(format)
        i == util_format_get_first_non_void_channel(format)
    IN  IF i = -1 THEN FALSE ELSE desc.channel[i].pure_integer

util_format_is_float(format) ==
    LET desc == util_format_description(format)
        i == util_format_get_first_non_void_channel(format)
    IN  IF i < 0 THEN FALSE ELSE desc.channel[i].type = UTIL_FORMAT_TYPE_FLOAT

(* The four predicates called on one format. *)
QueryPredicates ==
    /\ qpc = "call"
    /\ query.fn = "predicates"
    /\ answer' = [pure_integer |-> util_format_is_pure_integer(query.format),
                  pure_sint |-> util_format_is_pure_sint(query.format),
                  pure_uint |-> util_format_is_pure_uint(query.format),
                  is_float |-> util_format_is_float(query.format)]
    /\ qpc' = "done"
    /\ UNCHANGED <<query, cpc, src_desc, dst_desc, compatible>>
    /\ UNCHANGED <<trVars, nirVars, linkVars>>

(***************************************************************************)
(* util_format_compose_swizzles, util_format_apply_color_swizzle           *)
(* A union pipe_color_union is kept as the four 32-bit patterns it holds.  *)
(***************************************************************************)
util_format_compose_swizzles_Swapped(swz1, swz2) ==
    [i \in 0..3 |-> IF swz1[i] <= PIPE_SWIZZLE_W THEN swz2[swz1[i]] ELSE swz1[i]]

util_format_compose_swizzles(swz1, swz2) ==
    [i \in 0..3 |-> IF swz2[i] <= PIPE_SWIZZLE_W THEN swz1[swz2[i]] ELSE swz2[i]]

(* The pattern of the float 1.0f. *)
FloatOne == 1065353216

util_format_apply_color_swizzle(color, swz, is_integer) ==
    [c \in 0..3 |->
        IF swz[c] = PIPE_SWIZZLE_X THEN color[0]
        ELSE IF swz[c] = PIPE_SWIZZLE_Y THEN color[1]
        ELSE IF swz[c] = PIPE_SWIZZLE_Z THEN color[2]
        ELSE IF swz[c] = PIPE_SWIZZLE_W THEN color[3]
        ELSE IF swz[c] = PIPE_SWIZZLE_1 THEN (IF is_integer THEN 1 ELSE FloatOne)
        ELSE 0]

(* The swizzles are composed and applied to the color; the two are also applied one
   after the other. *)
QueryCompose ==
    /\ qpc = "call"
    /\ query.fn = "compose"
    /\ LET swz == util_format_compose_swizzles(query.swz1, query.swz2)
           once == util_format_apply_color_swizzle(query.color, query.swz1, query.is_integer)
       IN  answer' = [dst |-> swz,
                      composed |-> util_format_apply_color_swizzle(query.color, swz,
                                                                   query.is_integer),
                      in_turn |-> util_format_apply_color_swizzle(once, query.swz2,
                                                                  query.is_integer)]
    /\ qpc' = "done"
    /\ UNCHANGED <<query, cpc, src_desc, dst_desc, compatible>>
    /\ UNCHANGED <<trVars, nirVars, linkVars>>

(***************************************************************************)
(* util_get_depth_format_mrd.  The double returned is kept as a fraction.  *)
(***************************************************************************)
Pow2(n) == IF n = 0 THEN 1 ELSE 2 * (2 ^ (n - 1))

(* mrd for the channel description read at desc->channel[depth_channel]. *)
DepthMrd(ch) ==
    IF ch.type = UTIL_FORMAT_TYPE_UNSIGNED /\ ch.normalized
    THEN [num |-> 1, den |-> Pow2(ch.size) - 1]
    ELSE [num |-> 1, den |-> Pow2(24) - 1]

(* What desc->channel[i] may read for i past the four entries of the array: the
   members of the description that follow it, taken as a channel description. *)
ChannelPastTheEnd == { ChNone, ChUN(7), ChUP(8) }

util_get_depth_format_mrd ==
    /\ qpc = "call"
    /\ query.fn = "mrd"
    /\ LET desc == util_format_description(query.format)
           depth_channel == desc.swizzle[0]
       IN  \E ch \in (IF depth_channel < 4 THEN {desc.channel[depth_channel]}
                      ELSE ChannelPastTheEnd) :
               answer' = [mrd |-> DepthMrd(ch), past_the_end |-> depth_channel >= 4]
    /\ qpc' = "done"
    /\ UNCHANGED <<query, cpc, src_desc, dst_desc, compatible>>
    /\ UNCHANGED <<trVars, nirVars, linkVars>>

(***************************************************************************)
(* util_copy_rect called on its own.  dst and src point at the first byte  *)
(* of two buffers of MaxHeight rows of blocks each.                        *)
(***************************************************************************)
Abs(n) == IF n < 0 THEN -n ELSE n

RectDst(q) == [a \in 0..(MaxHeight * q.dst_stride - 1) |-> 85]

RectSrc(q) == [a \in 0..(MaxHeight * Abs(q.src_stride) - 1) |-> (a * 37 + 90) % 256]

(* The call; the answer also records which of the two branches ran and what the
   row loop gives on the same arguments. *)
CopyRectCall ==
    /\ qpc = "call"
    /\ query.fn = "copy_rect"
    /\ LET blocksize == util_format_get_blocksize(query.format)
           blockwidth == util_format_get_blockwidth(query.format)
           blockheight == util_format_get_blockheight(query.format)
           wbytes == ((query.width + blockwidth - 1) \div blockwidth) * blocksize
           bheight == (query.height + blockheight - 1) \div blockheight
           dp2 == (query.dst_x \div blockwidth) * blocksize
                     + (query.dst_y \div blockheight) * query.dst_stride
           sp2 == (query.src_x \div blockwidth) * blocksize
                     + (query.src_y \div blockheight) * Abs(query.src_stride)
       IN  answer' = [dst |-> util_copy_rect(RectDst(query), 0, query.format, query.dst_stride,
                                             query.dst_x, query.dst_y, query.width,
                                             query.height, RectSrc(query), 0,
                                             query.src_stride, query.src_x, query.src_y),
                      bulk |-> wbytes = query.dst_stride
                                  /\ EqUnsigned(wbytes, query.src_stride),
                      by_rows |-> CopyRows(RectDst(query), dp2, RectSrc(query), sp2, wbytes,
                                           query.dst_stride, query.src_stride, 0, bheight)]
    /\ qpc' = "done"
    /\ UNCHANGED <<query, cpc, src_desc, dst_desc, compatible>>
    /\ UNCHANGED <<trVars, nirVars, linkVars>>

RectFormats == { "R8_UINT", "R8G8B8A8_UNORM", "DXT1_RGB" }

(* Pixel positions: the first and the last pixel of every block column (row). *)
PixelStarts(blocks, size) == { b * size + o : b \in 0..(blocks - 1), o \in {0, size - 1} }

(* Pixel extents: whole blocks, and one pixel into the last block. *)
PixelExtents(blocks, size) == { b * size - o : b \in 1..blocks, o \in {0, size - 1} }

(* The calls whose rectangles lie inside both buffers; with a negative source stride
   the rows are read from src_y downwards. *)
RectCalls ==
    UNION { LET bs == util_format_get_blocksize(f)
                bw == util_format_get_blockwidth(f)
                bh == util_format_get_blockheight(f)
            IN  { q \in [fn : {"copy_rect"}, format : {f},
                         dst_stride : {MaxWidth * bs, (MaxWidth + 1) * bs},
                         src_stride : {MaxWidth * bs, (MaxWidth + 1) * bs,
                                       -(MaxWidth * bs), -((MaxWidth + 1) * bs)},
                         dst_x : {0, (MaxWidth - 1) * bw}, dst_y : {0, (MaxHeight - 1) * bh},
                         src_x : PixelStarts(MaxWidth, bw), src_y : PixelStarts(MaxHeight, bh),
                         width : PixelExtents(MaxWidth, bw),
                         height : PixelExtents(MaxHeight, bh)] :
                    LET cols == (q.width + bw - 1) \div bw
                        rows == (q.height + bh - 1) \div bh
                    IN  /\ q.dst_x \div bw + cols <= MaxWidth
                        /\ q.src_x \div bw + cols <= MaxWidth
                        /\ q.dst_y \div bh + rows <= MaxHeight
                        /\ IF q.src_stride < 0 THEN q.src_y \div bh - (rows - 1) >= 0
                           ELSE q.src_y \div bh + rows <= MaxHeight }
          : f \in RectFormats }

(* The swizzles swz2 is drawn from; swz1 is any swizzle over X, Y, Z, W, 0, 1. *)
SecondSwizzles ==
    { Arr4(s) : s \in { SwzXYZW, SwzXYZ1, SwzZYXW, SwzZYX1, SwzX001, SwzXXX1, SwzXXXX, Swz000X,
                        <<PIPE_SWIZZLE_W, PIPE_SWIZZLE_Z, PIPE_SWIZZLE_Y, PIPE_SWIZZLE_X>>,
                        <<PIPE_SWIZZLE_1, PIPE_SWIZZLE_0, PIPE_SWIZZLE_W, PIPE_SWIZZLE_Y>>,
                        <<PIPE_SWIZZLE_Y, PIPE_SWIZZLE_Y, PIPE_SWIZZLE_1, PIPE_SWIZZLE_1>>,
                        <<PIPE_SWIZZLE_0, PIPE_SWIZZLE_1, PIPE_SWIZZLE_0, PIPE_SWIZZLE_Z>> } }

(* Four different patterns, none of them the pattern of 0 or of 1 or of 1.0f. *)
Colors == { Arr4(<<10, 20, 30, 40>>) }

Queries ==
    { [fn |-> "predicates", format |-> d.format] : d \in FormatTable }
    \cup { [fn |-> "mrd", format |-> d.format] : d \in FormatTable }
    \cup { [fn |-> "compose", swz1 |-> s1, swz2 |-> s2, color |-> c, is_integer |-> b] :
              s1 \in [0..3 -> PIPE_SWIZZLE_X..PIPE_SWIZZLE_1], s2 \in SecondSwizzles,
              c \in Colors, b \in BOOLEAN }
    \cup RectCalls

InitQuery ==
    /\ qpc = "call"
    /\ query \in Queries
    /\ answer = "none"
    /\ cpc = "idle" /\ src_desc = "none" /\ dst_desc = "none" /\ compatible = FALSE
    /\ TrIdle /\ NirIdle /\ LinkIdle

NextQuery ==
    \/ QueryPredicates
    \/ QueryCompose
    \/ util_get_depth_format_mrd
    \/ CopyRectCall

SpecQuery == InitQuery /\ [][NextQuery]_vars

(***************************************************************************)
(* Claims about the predicates, the swizzles and the depth format          *)
(***************************************************************************)
Answered(fn) == qpc = "done" /\ query.fn = fn

AllVoid(desc) == \A i \in 0..3 : desc.channel[i].type = UTIL_FORMAT_TYPE_VOID

(* C21: when util_format_is_pure_integer is true of a format, exactly one of
   util_format_is_pure_sint and util_format_is_pure_uint is true of it and
   util_format_is_float is false; the four are false of a format whose channels are
   all void. *)
C21_PureIntegerPredicates ==
    Answered("predicates") =>
        /\ answer.pure_integer =>
              /\ answer.pure_sint # answer.pure_uint
              /\ ~answer.is_float
        /\ AllVoid(util_format_description(query.format)) =>
              /\ ~answer.pure_integer /\ ~answer.pure_sint
              /\ ~answer.pure_uint /\ ~answer.is_float

(* The predicates were called on a pure signed format. *)
C21_Witness ==
    /\ Answered("predicates")
    /\ answer.pure_integer /\ answer.pure_sint /\ ~answer.pure_uint /\ ~answer.is_float

(* C22: util_format_compose_swizzles gives dst[i] = swz1[swz2[i]] when swz2[i] is one
   of X, Y, Z, W and dst[i] = swz2[i] otherwise, and applying dst to a color gives
   the four components that applying swz1 and then swz2 gives, for integer and for
   float colors. *)
C22_ComposedSwizzle ==
    Answered("compose") =>
        /\ \A i \in 0..3 :
              answer.dst[i] = IF query.swz2[i] \in {PIPE_SWIZZLE_X, PIPE_SWIZZLE_Y,
                                                    PIPE_SWIZZLE_Z, PIPE_SWIZZLE_W}
                              THEN query.swz1[query.swz2[i]] ELSE query.swz2[i]
        /\ answer.composed = answer.in_turn

(* Two swizzles that do not commute were composed on a float color: components that
   are moved twice, a constant of swz1 that swz2 moves, a constant of swz2. *)
C22_Witness ==
    /\ Answered("compose")
    /\ ~query.is_integer
    /\ query.swz1 = Arr4(<<PIPE_SWIZZLE_Y, PIPE_SWIZZLE_Z, PIPE_SWIZZLE_X, PIPE_SWIZZLE_1>>)
    /\ query.swz2 = Arr4(<<PIPE_SWIZZLE_1, PIPE_SWIZZLE_0, PIPE_SWIZZLE_W, PIPE_SWIZZLE_Y>>)
    /\ answer.composed = Arr4(<<FloatOne, 0, FloatOne, 30>>)

(* The depth channel of a description: the channel its first swizzle names, when it
   names one. *)
HasDepthChannel(desc) == desc.swizzle[0] \in 0..3

NormalizedDepth(desc) ==
    /\ HasDepthChannel(desc)
    /\ desc.channel[desc.swizzle[0]].type = UTIL_FORMAT_TYPE_UNSIGNED
    /\ desc.channel[desc.swizzle[0]].normalized

MrdValue ==
    Answered("mrd") =>
        LET desc == util_format_description(query.format)
        IN  answer.mrd = [num |-> 1,
                          den |-> IF NormalizedDepth(desc)
                                  THEN Pow2(desc.channel[desc.swizzle[0]].size) - 1
                                  ELSE 16777215]

MrdReadsInside == Answered("mrd") => ~answer.past_the_end

(* C23: util_get_depth_format_mrd returns 1 / (2^n - 1) when the depth channel is
   normalized unsigned of n bits and 1 / (2^24 - 1) for every other description, one
   whose first swizzle names no channel included, and reads no entry past the four
   of the channel array. *)
C23_DepthMrd ==
    /\ MrdValue
    /\ MrdReadsInside

(***************************************************************************)
(* Claims about util_copy_rect                                             *)
(***************************************************************************)
(* The byte of the source that belongs at address a of the destination, or -1 when
   a lies outside the rows of blocks the call writes. *)
RectSourceOf(q, a) ==
    LET bs == util_format_get_blocksize(q.format)
        bw == util_format_get_blockwidth(q.format)
        bh == util_format_get_blockheight(q.format)
        rows == (q.height + bh - 1) \div bh
        row_bytes == ((q.width + bw - 1) \div bw) * bs
        first == (q.dst_y \div bh) * q.dst_stride + (q.dst_x \div bw) * bs
        r == (a - first) \div q.dst_stride
        k == (a - first) % q.dst_stride
    IN  IF a >= first /\ r < rows /\ k < row_bytes
        THEN (q.src_y \div bh) * Abs(q.src_stride) + (q.src_x \div bw) * bs
                + r * q.src_stride + k
        ELSE -1

RowsCopied ==
    Answered("copy_rect") =>
        \A a \in DOMAIN answer.dst :
            answer.dst[a] = IF RectSourceOf(query, a) >= 0
                            THEN RectSrc(query)[RectSourceOf(query, a)]
                            ELSE RectDst(query)[a]

BulkCopyIsRowCopy ==
    (Answered("copy_rect") /\ answer.bulk) => answer.dst = answer.by_rows

(* C26: util_copy_rect copies, for each of ceil(height / blockheight) rows of blocks,
   ceil(width / blockwidth) * blocksize bytes from the source row to the destination
   row, the source rows taken backwards under a negative source stride; the single
   copy made when both strides equal the row's bytes leaves the destination the row
   loop would leave; no destination byte outside the rectangle changes. *)
C26_CopyRect ==
    /\ RowsCopied
    /\ BulkCopyIsRowCopy

(* A flipped copy of 5 x 8 pixels of a format of 4 x 4 blocks: two blocks a row, two
   rows, the second destination row taken from the first source row. *)
C26_Witness ==
    /\ Answered("copy_rect")
    /\ query.format = "DXT1_RGB"
    /\ query.src_stride = -(MaxWidth * 8)
    /\ query.dst_stride = (MaxWidth + 1) * 8
    /\ query.width = 5 /\ query.height = 8
    /\ query.dst_x = 0 /\ query.dst_y = 0 /\ query.src_x = 0 /\ query.src_y = 7
    /\ answer.dst[query.dst_stride] = RectSrc(query)[0]
    /\ answer.dst[0] = RectSrc(query)[MaxWidth * 8]
    /\ answer.dst[16] = 85

(* Both strides equal to the row's bytes: one copy for the whole rectangle. *)
C26_BulkWitness ==
    /\ Answered("copy_rect")
    /\ answer.bulk
    /\ query.height > 1
    /\ answer.dst = RectSrc(query)

(***************************************************************************)
(* Claims about the depth/stencil branch of util_format_translate          *)
(***************************************************************************)
InZsBranch == loc.path = "zs"

ZsFirstDstRow ==
    layer.dst_layer + call.dst_y * call.dst_stride + call.dst_x * (DstDesc.block.bits \div 8)

ZsFirstSrcRow ==
    layer.src_layer + call.src_y * call.src_stride + call.src_x * (SrcDesc.block.bits \div 8)

(* Rows r .. height - 1 converted, row r of the source into row r of the destination,
   with the depth and the stencil functions that are present on both sides. *)
RECURSIVE ZsRowByRow(_, _)
ZsRowByRow(d, r) ==
    IF r >= call.height THEN d
    ELSE ZsRowByRow(ConvertZsRow(d, ZsFirstDstRow + r * call.dst_stride,
                                 src, ZsFirstSrcRow + r * call.src_stride, SrcDesc, DstDesc,
                                 "unpack_z_float" \in unpack /\ "pack_z_float" \in pack,
                                 "unpack_s_8uint" \in unpack /\ "pack_s_8uint" \in pack,
                                 call.width, 0),
                    r + 1)

ZsOneRowPerIteration ==
    InZsBranch => (loc.dst_step = call.dst_stride /\ loc.src_step = call.src_stride)

ZsHeightRows ==
    (InZsBranch /\ pc = "return") =>
        /\ loc.height = 0
        /\ loc.dst_row = ZsFirstDstRow + call.height * call.dst_stride
        /\ loc.src_row = ZsFirstSrcRow + call.height * call.src_stride
        /\ ~trace.alloc_failed => dst = ZsRowByRow(trace.entry_dst, 0)

ZsMissingIsSkipped ==
    (InZsBranch /\ pc = "return") =>
        /\ ret = "TRUE"
        /\ ("unpack_z_float" \notin unpack \/ "pack_z_float" \notin pack)
              => heap.tmp_z = "none"
        /\ ("unpack_s_8uint" \notin unpack \/ "pack_s_8uint" \notin pack)
              => heap.tmp_s = "none"

(* C25: when either format is depth/stencil, util_format_translate converts height
   rows, row r of the source into row r of the destination, stepping both buffers
   by one row an iteration whatever the blocks of the two formats are; a depth or
   stencil channel whose unpack or pack function is missing is skipped and the call
   returns success. *)
C25_ZsRowByRow ==
    /\ ZsOneRowPerIteration
    /\ ZsHeightRows
    /\ ZsMissingIsSkipped

====
